---- MODULE Spec2Model ----
(***************************************************************************)
(* Load-sharing peer registry of the OpenEVSE ESP32 firmware:              *)
(* LoadSharingDiscoveryTask's group-peer list (_groupPeers), its           *)
(* persistence in LittleFS (/loadsharing_peers.json, written through       *)
(* /loadsharing_peers.json.tmp) and the HTTP handlers that drive it        *)
(* (POST /loadsharing/peers, DELETE /loadsharing/peers/{host}).            *)
(*                                                                         *)
(* Strings are sequences of one-character strings, so that trim, indexOf,  *)
(* operator== and the JSON text written to flash are computed, not         *)
(* assumed.  A file is a record [exists, data]; data is the JSON text.     *)
(* saveGroupPeers is split at its LittleFS calls (open, write, remove,     *)
(* rename) because power can be lost between any two of them; no other     *)
(* handler runs in between (the firmware's tasks are cooperative).         *)
(*                                                                         *)
(* Spec is the registry with its requests, saves and power losses.         *)
(* DiscoverySpec is the discovery worker of the same task: its loop, the   *)
(* mDNS searches it starts, polls and cancels, triggerDiscovery and        *)
(* invalidateCache, over a clock that wraps like millis().                 *)
(* DiscoveryFairSpec is the worker on a node without a peer file, with     *)
(* loop scheduled again and again (MicroTasks calls it every               *)
(* _poll_interval_ms).                                                     *)
(* AllocatorSpec is the load-sharing group (LoadSharingGroupState): the    *)
(* joined peers with their statuses, the allocation map computed from      *)
(* them and the failsafe override of this node's share.  Currents are      *)
(* integers in tenths of an amp.                                           *)
(* LifecycleSpec is the worker with end() called at some point.            *)
(* GroupStateSpec is LoadSharingGroupState's peer list under any calls of  *)
(* addOrUpdatePeer and removePeer.  LimitSpec is the Limit task with the   *)
(* claim it holds in the EvseManager.  HeartbeatSpec is the status         *)
(* ingestor's subscription to one peer, and SyncSpec the config sync       *)
(* between this node and one peer, both as the design documents describe   *)
(* them.                                                                   *)
(***************************************************************************)
EXTENDS Integers, Sequences, FiniteSets, TLC

VARIABLES
  _groupPeers,       \* std::vector<String> _groupPeers
  _groupPeersDirty,  \* bool _groupPeersDirty
  fsLive,            \* LittleFS file /loadsharing_peers.json
  fsTmp,             \* LittleFS file /loadsharing_peers.json.tmp
  pc,                \* where the firmware is: boot, idle, inside saveGroupPeers,
                     \* or stopped (the discovery task has been ended)
  cur,               \* the registry call in progress: [kind, host]
  resp,              \* the last HTTP response: [code, msg]
  hist,              \* history of the last request (what it was, the state before it)
  stop,              \* history of the last power loss / restart
  now,                   \* millis(), in units of MsPerUnit milliseconds
  _cachedPeers,          \* std::vector<DiscoveredPeer> _cachedPeers
  _lastDiscovery,        \* unsigned long _lastDiscovery
  _cacheValid,           \* bool _cacheValid
  _last_discovery_time,  \* unsigned long _last_discovery_time
  _active_query,         \* void* _active_query: a search handle, or NullHandle
  _query_start_time,     \* unsigned long _query_start_time
  _query_in_progress,    \* bool _query_in_progress
  _discovery_count,      \* unsigned long _discovery_count
  _last_result_count,    \* unsigned long _last_result_count
  mdns,                  \* the mDNS library: searches allocated, finished, deleted
  dh,                    \* history of the discovery worker (ticks, triggers, starts)
  config,                \* the group config
  self,                  \* this node: [id, valid, status], its own sensors' status
  _peers,                \* std::vector<LoadSharingPeer> _peers
  _allocations,          \* std::vector<LoadSharingAllocation> _allocations
  _failsafe_active,      \* bool _failsafe_active
  _online_count,         \* uint8_t _online_count
  _offline_count,        \* uint8_t _offline_count
  emitted,               \* the self-allocation handed to the Enforcement Bridge
  _evse,                 \* Limit::_evse: NULL (FALSE) until Limit::begin
  evse,                  \* the EvseManager as Limit sees it: claims and charging
  _limit_properties,     \* LimitProperties Limit::_limit_properties
  _sessionCompleteListener,  \* the listener's flag that IsTriggered() reads
  lh,                    \* history of the last call of Limit::loop
  gh,                    \* history of the last call of addOrUpdatePeer or removePeer
  link,                  \* the status subscription to one peer: [connected,
                         \* last_seen, online]
  uptime,                \* the ingestor's clock, in seconds
  ih,                    \* history of the subscription
  nodes,                 \* config sync: for this node and one peer, the group
                         \* config with its config_version, config_updated_at
                         \* and the config_consistent flag it reports
  sh                     \* history of the config sync

\* The registry, its files and the request in progress
regVars == <<_groupPeers, _groupPeersDirty, fsLive, fsTmp, pc, cur, resp, hist, stop>>

\* The discovery worker, the clock and the mDNS library
discVars == <<now, _cachedPeers, _lastDiscovery, _cacheValid, _last_discovery_time,
              _active_query, _query_start_time, _query_in_progress,
              _discovery_count, _last_result_count, mdns, dh>>

\* The load-sharing group state, the allocator's and the supervisor's outputs
groupVars == <<config, self, _peers, _allocations, _failsafe_active,
               _online_count, _offline_count, emitted>>

\* The Limit task and the EvseManager
limitVars == <<_evse, evse, _limit_properties, _sessionCompleteListener, lh>>

\* What the registry, the discovery worker and the group leave alone
\* The status ingestor's subscription to one peer
hbVars == <<link, uptime, ih>>

\* Config sync between this node and one peer
syncVars == <<nodes, sh>>

extVars == <<limitVars, gh, hbVars, syncVars>>

vars == <<_groupPeers, _groupPeersDirty, fsLive, fsTmp, pc, cur, resp, hist, stop,
          now, _cachedPeers, _lastDiscovery, _cacheValid, _last_discovery_time,
          _active_query, _query_start_time, _query_in_progress,
          _discovery_count, _last_result_count, mdns, dh,
          config, self, _peers, _allocations, _failsafe_active,
          _online_count, _offline_count, emitted,
          _evse, evse, _limit_properties, _sessionCompleteListener, lh, gh,
          link, uptime, ih, nodes, sh>>

(***************************************************************************)
(* Bounds                                                                  *)
(***************************************************************************)
\* Peers are joined to the load-sharing group only while it has fewer than this.
MaxJoined == 2

\* The ingestor's clock is explored up to this many seconds.
MaxUptime == 80

\* The operators edit the group config at most this often, on both nodes together.
MaxEdits == 2

\* The wall-clock seconds at which a config is edited are 1..MaxStamp.
MaxStamp == 2

\* Add is explored only while the list is shorter than this.
MaxPeers == 2
\* The discovery worker is explored for this many events (calls of loop,
\* triggerDiscovery and invalidateCache).
MaxEvents == 8

(***************************************************************************)
(* Host names used as inputs                                               *)
(***************************************************************************)
HostA      == <<"a", ":", "1">>            \* a host with a colon and no dot
HostACase  == <<"A", ":", "1">>            \* the same host in another letter case
SelfHost   == <<"s", ".", "l">>            \* the node's own host name (a DNS name)
HostNoDot  == <<"a", "b">>                 \* neither '.' nor ':'
HostPadded == <<" ", "a", ":", "1", " ">>  \* HostA with surrounding blanks
HostBlank  == <<" ">>                      \* only white space: empty once trimmed
HostEmpty  == <<>>

ValidHosts == {HostA, HostACase, SelfHost}

(***************************************************************************)
(* Arduino String operations used by the handlers                          *)
(***************************************************************************)
isspace(c) == c = " "

RECURSIVE trimLeft(_)
trimLeft(s) ==
  IF s # <<>> /\ isspace(Head(s)) THEN trimLeft(Tail(s)) ELSE s

RECURSIVE trimRight(_)
trimRight(s) ==
  IF s # <<>> /\ isspace(s[Len(s)]) THEN trimRight(SubSeq(s, 1, Len(s) - 1)) ELSE s

\* String::trim()
trim(s) == trimRight(trimLeft(s))

\* String::isEmpty()
isEmpty(s) == Len(s) = 0

\* String::indexOf(char): position of the first occurrence (from 0), or -1
indexOf(s, c) ==
  IF \E i \in 1..Len(s) : s[i] = c
  THEN (CHOOSE i \in 1..Len(s) : s[i] = c /\ \A j \in 1..(i - 1) : s[j] # c) - 1
  ELSE -1

\* String::operator==(const String&): exact, case-sensitive comparison
StringEquals(a, b) == a = b

(***************************************************************************)
(* JSON text of the peer document                                          *)
(***************************************************************************)
Quote == "\""
PeersKey == "\"peers\":"

RECURSIVE serializeElements(_)
serializeElements(peers) ==
  IF peers = <<>> THEN <<>>
  ELSE <<Quote>> \o Head(peers) \o <<Quote>>
       \o (IF Len(peers) > 1 THEN <<",">> ELSE <<>>)
       \o serializeElements(Tail(peers))

\* Faulty variant of serializeJson: only the host changed last is written
serializeJsonLastOnly(peers) ==
  <<"{", PeersKey, "[">>
    \o serializeElements(IF peers = <<>> THEN <<>> ELSE <<peers[Len(peers)]>>)
    \o <<"]", "}">>

\* doc.createNestedArray("peers"); peers.add(hostname)...; serializeJson(doc, file)
serializeJson(peers) ==
  <<"{", PeersKey, "[">> \o serializeElements(peers) \o <<"]", "}">>

ParseFail == [ok |-> FALSE, val |-> <<>>, next |-> 0]

RECURSIVE readString(_, _, _)
\* reads a string body from position i up to its closing quote
readString(t, i, acc) ==
  IF i > Len(t) THEN ParseFail
  ELSE IF t[i] = Quote THEN [ok |-> TRUE, val |-> acc, next |-> i + 1]
  ELSE readString(t, i + 1, Append(acc, t[i]))

RECURSIVE readArray(_, _, _)
\* reads array elements from position i (just after "[" or ",")
readArray(t, i, acc) ==
  IF i > Len(t) THEN ParseFail
  ELSE IF t[i] = "]" /\ acc = <<>> THEN [ok |-> TRUE, val |-> acc, next |-> i + 1]
  ELSE IF t[i] # Quote THEN ParseFail
  ELSE LET s == readString(t, i + 1, <<>>) IN
       IF ~s.ok \/ s.next > Len(t) THEN ParseFail
       ELSE IF t[s.next] = "," THEN readArray(t, s.next + 1, Append(acc, s.val))
       ELSE IF t[s.next] = "]"
            THEN [ok |-> TRUE, val |-> Append(acc, s.val), next |-> s.next + 1]
       ELSE ParseFail

\* deserializeJson(doc, file), then doc["peers"].as<JsonArray>() with
\* peer.as<String>() of every element
deserializeJson(t) ==
  IF Len(t) < 3 \/ t[1] # "{" \/ t[2] # PeersKey \/ t[3] # "["
  THEN [error |-> TRUE, peers |-> <<>>]
  ELSE LET a == readArray(t, 4, <<>>) IN
       IF ~a.ok \/ a.next > Len(t) \/ t[a.next] # "}"
       THEN [error |-> TRUE, peers |-> <<>>]
       ELSE [error |-> FALSE, peers |-> a.val]

(***************************************************************************)
(* Files                                                                   *)
(***************************************************************************)
NoFile == [exists |-> FALSE, data |-> <<>>]
FileWith(text) == [exists |-> TRUE, data |-> text]

\* A temp file left behind by a save that did not reach its rename.  Its text
\* is never read again: loadGroupPeers opens only the live path and the next
\* saveGroupPeers truncates the temp path with open(tempPath, "w").  The model
\* therefore keeps that the file exists and lets go of what it holds.
StaleFile == [exists |-> TRUE, data |-> <<"stale">>]
LeftBehind(file) == IF file.exists THEN StaleFile ELSE NoFile

(***************************************************************************)
(* Registry operations on the in-memory list                               *)
(***************************************************************************)
\* Faulty variant of isDuplicatePeer: the duplicate check never matches
isDuplicatePeerNever(peers, hostname) == FALSE

\* addGroupPeer: "Check for duplicates" loop
isDuplicatePeer(peers, hostname) ==
  \E i \in 1..Len(peers) : StringEquals(peers[i], hostname)

\* Faulty variant of pushBack: the host is not stored
pushBackDropped(peers, hostname) == peers

\* addGroupPeer: _groupPeers.push_back(hostname)
pushBack(peers, hostname) == Append(peers, hostname)

\* removeGroupPeer: index (from 1) of the first entry equal to hostname, 0 if none
findPeer(peers, hostname) ==
  IF \E i \in 1..Len(peers) : StringEquals(peers[i], hostname)
  THEN CHOOSE i \in 1..Len(peers) :
         /\ StringEquals(peers[i], hostname)
         /\ \A j \in 1..(i - 1) : ~StringEquals(peers[j], hostname)
  ELSE 0

\* Faulty variant of eraseAt: the first entry is erased, whatever i is
eraseFirst(peers, i) == Tail(peers)

\* removeGroupPeer: _groupPeers.erase(_groupPeers.begin() + i)
eraseAt(peers, i) == SubSeq(peers, 1, i - 1) \o SubSeq(peers, i + 1, Len(peers))

\* addGroupPeer's return value once the list was changed: saveGroupPeers() is
\* called as a statement, its result is dropped, and true is returned
addGroupPeerReturn(saveResult) == TRUE

\* removeGroupPeer's return value once the entry was erased: likewise true
removeGroupPeerReturn(saveResult) == TRUE

\* isGroupPeer
isGroupPeer(peers, hostname) ==
  \E i \in 1..Len(peers) : StringEquals(peers[i], hostname)

RECURSIVE discoveredInfos(_, _)
\* getAllPeers: "Add discovered peers" loop
discoveredInfos(cached, group) ==
  IF cached = <<>> THEN <<>>
  ELSE <<[hostname  |-> Head(cached).hostname,
          ipAddress |-> Head(cached).ipAddress,
          online    |-> TRUE,
          joined    |-> isGroupPeer(group, Head(cached).hostname)]>>
       \o discoveredInfos(Tail(cached), group)

RECURSIVE groupInfosNoCheck(_, _)
\* Faulty variant of groupInfos: hosts already added are listed again
groupInfosNoCheck(group, addedHosts) ==
  IF group = <<>> THEN <<>>
  ELSE <<[hostname  |-> Head(group),
          ipAddress |-> <<>>,
          online    |-> FALSE,
          joined    |-> TRUE]>>
       \o groupInfosNoCheck(Tail(group), addedHosts)

\* Faulty variant of groupInfos: group peers that were not discovered are left out
groupInfosNone(group, addedHosts) == <<>>

RECURSIVE groupInfos(_, _)
\* getAllPeers: "Add group peers that weren't discovered" loop
groupInfos(group, addedHosts) ==
  IF group = <<>> THEN <<>>
  ELSE (IF \E i \in 1..Len(addedHosts) : StringEquals(addedHosts[i], Head(group))
        THEN <<>>
        ELSE <<[hostname  |-> Head(group),
                ipAddress |-> <<>>,
                online    |-> FALSE,
                joined    |-> TRUE]>>)
       \o groupInfos(Tail(group), addedHosts)

\* getAllPeers(includeDiscovered, includeGroup) over a discovery snapshot and the list
getAllPeers(cached, group, includeDiscovered, includeGroup) ==
  LET disc  == IF includeDiscovered THEN discoveredInfos(cached, group) ELSE <<>>
      added == [i \in 1..Len(disc) |-> disc[i].hostname]
  IN disc \o (IF includeGroup THEN groupInfos(group, added) ELSE <<>>)

\* Faulty variant of loadGroupPeers: the file is read although open failed
loadGroupPeersIgnoresOpen(peers, dirty, file, openOk) ==
  IF ~file.exists THEN [ok |-> FALSE, peers |-> peers, dirty |-> dirty]
  ELSE LET doc == deserializeJson(file.data) IN
       IF doc.error THEN [ok |-> FALSE, peers |-> peers, dirty |-> dirty]
       ELSE [ok |-> TRUE, peers |-> doc.peers, dirty |-> FALSE]

\* loadGroupPeers: the list and dirty flag it leaves, and its return value
loadGroupPeers(peers, dirty, file, openOk) ==
  IF ~file.exists THEN [ok |-> FALSE, peers |-> peers, dirty |-> dirty]
  ELSE IF ~openOk THEN [ok |-> FALSE, peers |-> peers, dirty |-> dirty]
  ELSE LET doc == deserializeJson(file.data) IN
       IF doc.error THEN [ok |-> FALSE, peers |-> peers, dirty |-> dirty]
       ELSE [ok |-> TRUE, peers |-> doc.peers, dirty |-> FALSE]

(***************************************************************************)
(* The clock and the discovery worker's timing                             *)
(***************************************************************************)
\* millis() is an unsigned long of 32 bits counting milliseconds.  The model
\* counts in units of MsPerUnit milliseconds (every event falls on a multiple
\* of it), so that the counter's wrap-around at 2^32 ms stays representable:
\* MillisWrap is 2^32 / MsPerUnit.
MsPerUnit == 8
MillisWrap == 536870912

\* Constructor defaults, in milliseconds
_cacheTtl == 60000
_poll_interval_ms == 2000
_discovery_interval_ms == 10000
_query_timeout_ms == 5000

\* A duration in milliseconds, in units of the clock
Units(ms) == ms \div MsPerUnit

\* a - b in unsigned long arithmetic
ElapsedSince(a, b) == (a - b + MillisWrap) % MillisWrap

\* Faulty variant of discoveryDue: only the first query and forced ones start
discoveryDueOnce(t, last) == last = 0

\* loop: "check if we should start a new one"
discoveryDue(t, last) ==
  ElapsedSince(t, last) >= Units(_discovery_interval_ms) \/ last = 0

\* Faulty variant of queryTimedOut: a query never times out
queryTimedOutNever(t, start) == FALSE

\* loop: "check timeout"
queryTimedOut(t, start) == ElapsedSince(t, start) > Units(_query_timeout_ms)

(***************************************************************************)
(* mDNS results and their conversion into DiscoveredPeer                   *)
(***************************************************************************)
\* A char* that is NULL
NullStr == <<"NULL">>
\* An mdns_ip_addr_t* that is NULL
NullAddr == -1
\* A search handle that is NULL
NullHandle == 0

DotLocal == <<".", "l", "o", "c", "a", "l">>

Digits == <<"0", "1", "2", "3", "4", "5", "6", "7", "8", "9">>

RECURSIVE DecimalString(_)
\* String(unsigned): the decimal digits of n
DecimalString(n) ==
  IF n < 10 THEN <<Digits[n + 1]>>
  ELSE DecimalString(n \div 10) \o <<Digits[(n % 10) + 1]>>

\* pollAsyncQuery: "Extract IP address" (the address is stored low byte first)
ipAddressString(ip) ==
  DecimalString(ip % 256) \o <<".">>
    \o DecimalString((ip \div 256) % 256) \o <<".">>
    \o DecimalString((ip \div 65536) % 256) \o <<".">>
    \o DecimalString((ip \div 16777216) % 256)

\* String::endsWith
endsWith(s, suffix) ==
  /\ Len(s) >= Len(suffix)
  /\ SubSeq(s, Len(s) - Len(suffix) + 1, Len(s)) = suffix

\* std::map<String, String>::operator[] assignment; the map is a set of
\* <<key, value>> pairs with one pair for a key
txtPut(m, key, value) == {p \in m : p[1] # key} \cup {<<key, value>>}

RECURSIVE txtRecordsOf(_, _)
\* pollAsyncQuery: "Extract TXT records"
txtRecordsOf(txt, m) ==
  IF txt = <<>> THEN m
  ELSE IF Head(txt).key # NullStr /\ Head(txt).value # NullStr
       THEN txtRecordsOf(Tail(txt), txtPut(m, Head(txt).key, Head(txt).value))
       ELSE txtRecordsOf(Tail(txt), m)

\* pollAsyncQuery: "Build hostname"; hostname NullStr when the result has no name
buildPeer(r) ==
  LET name == IF r.instance_name # NullStr THEN r.instance_name \o DotLocal
              ELSE IF r.hostname # NullStr
                   THEN (IF endsWith(r.hostname, DotLocal) THEN r.hostname
                         ELSE r.hostname \o DotLocal)
              ELSE NullStr
      svc  == IF r.instance_name # NullStr THEN r.instance_name ELSE r.hostname
  IN [hostname    |-> name,
      serviceName |-> svc,
      ipAddress   |-> IF r.addr # NullAddr THEN ipAddressString(r.addr) ELSE <<>>,
      port        |-> r.port,
      txtRecords  |-> txtRecordsOf(r.txt, {})]

RECURSIVE collectPeersLastWins(_, _, _)
\* Faulty variant of collectPeers: a later result replaces the entry of its host
collectPeersLastWins(results, seenHostnames, peers) ==
  IF results = <<>> THEN peers
  ELSE LET peer == buildPeer(Head(results)) IN
       IF peer.hostname = NullStr
       THEN collectPeersLastWins(Tail(results), seenHostnames, peers)
       ELSE IF \E i \in 1..Len(peers) : peers[i].hostname = peer.hostname
       THEN collectPeersLastWins(
              Tail(results), seenHostnames,
              [i \in 1..Len(peers) |->
                 IF peers[i].hostname = peer.hostname THEN peer ELSE peers[i]])
       ELSE collectPeersLastWins(Tail(results), seenHostnames, Append(peers, peer))

RECURSIVE collectPeers(_, _, _)
\* pollAsyncQuery: the loop over the result list, with seenHostnames
collectPeers(results, seenHostnames, peers) ==
  IF results = <<>> THEN peers
  ELSE LET peer == buildPeer(Head(results)) IN
       IF peer.hostname = NullStr
       THEN collectPeers(Tail(results), seenHostnames, peers)
       ELSE IF \E i \in 1..Len(seenHostnames) :
                 StringEquals(seenHostnames[i], peer.hostname)
       THEN collectPeers(Tail(results), seenHostnames, peers)
       ELSE collectPeers(Tail(results), Append(seenHostnames, peer.hostname),
                         Append(peers, peer))

\* What the responders on the network may answer to one query
\* (the same device answers over two interfaces: ResultA and ResultAOther)
TxtId(v) == [key |-> <<"i", "d">>, value |-> v]
ResultA      == [instance_name |-> <<"a">>, hostname |-> NullStr,
                 addr |-> 33554433, port |-> 80,
                 txt |-> <<TxtId(<<"1">>), TxtId(NullStr)>>]
ResultAOther == [instance_name |-> <<"a">>, hostname |-> NullStr,
                 addr |-> 50331649, port |-> 8080,
                 txt |-> <<TxtId(<<"2">>)>>]
ResultB      == [instance_name |-> NullStr, hostname |-> <<"b">>,
                 addr |-> NullAddr, port |-> 80, txt |-> <<>>]
MdnsResults == {<<>>, <<ResultA, ResultAOther, ResultB>>}

HostALocal == <<"a">> \o DotLocal
HostBLocal == <<"b">> \o DotLocal

\* Peer lists a node may have on flash when it starts
GroupLists == {<<HostA, HostALocal>>}

(***************************************************************************)
(* The mDNS library's searches                                             *)
(***************************************************************************)
\* made: handles handed out so far (1..made); done: searches that have
\* finished; deleted: handles given to mdns_query_async_delete
NoSearches == [made |-> 0, done |-> {}, deleted |-> {}]

\* Searches that are running: handed out, not finished, not deleted
InFlight(m) == (1..m.made) \ (m.done \cup m.deleted)

(***************************************************************************)
(* The discovery worker: its fields as one record, and its methods         *)
(***************************************************************************)
\* The worker's fields and the library's searches, as the methods below see them
Worker ==
  [_cachedPeers         |-> _cachedPeers,
   _lastDiscovery       |-> _lastDiscovery,
   _cacheValid          |-> _cacheValid,
   _last_discovery_time |-> _last_discovery_time,
   _active_query        |-> _active_query,
   _query_start_time    |-> _query_start_time,
   _query_in_progress   |-> _query_in_progress,
   _discovery_count     |-> _discovery_count,
   _last_result_count   |-> _last_result_count,
   mdns                 |-> mdns]

\* The worker as the constructor leaves it
NewWorker ==
  [_cachedPeers         |-> <<>>,
   _lastDiscovery       |-> 0,
   _cacheValid          |-> FALSE,
   _last_discovery_time |-> 0,
   _active_query        |-> NullHandle,
   _query_start_time    |-> 0,
   _query_in_progress   |-> FALSE,
   _discovery_count     |-> 0,
   _last_result_count   |-> 0,
   mdns                 |-> NoSearches]

\* mdns_query_async_new: a new search and its handle, or NULL
mdns_query_async_new(m, ok) ==
  IF ok THEN [handle |-> m.made + 1, mdns |-> [m EXCEPT !.made = @ + 1]]
  ELSE [handle |-> NullHandle, mdns |-> m]

\* startAsyncQuery, at time t
startAsyncQuery(w, t, startOk) ==
  LET q == mdns_query_async_new(w.mdns, startOk) IN
  IF q.handle # NullHandle
  THEN [w EXCEPT !._active_query = q.handle, !.mdns = q.mdns,
                 !._query_in_progress = TRUE, !._query_start_time = t]
  ELSE [w EXCEPT !._active_query = q.handle, !._query_in_progress = FALSE]

\* processQueryResults
processQueryResults(w, peers) == [w EXCEPT !._last_result_count = Len(peers)]

\* Faulty variant of pollAsyncQuery: the list is replaced, its timestamp and
\* the valid flag are not
pollAsyncQueryListOnly(w, t, isComplete, results) ==
  IF w._active_query = NullHandle THEN [complete |-> FALSE, w |-> w]
  ELSE IF isComplete
  THEN LET peers == collectPeers(results, <<>>, <<>>) IN
       [complete |-> TRUE,
        w |-> processQueryResults(
                [w EXCEPT !._cachedPeers = peers,
                          !.mdns.done = @ \cup {w._active_query}],
                peers)]
  ELSE [complete |-> FALSE, w |-> w]

\* pollAsyncQuery, at time t: its return value and the worker it leaves.
\* isComplete and results are what mdns_query_async_get_results reports.
pollAsyncQuery(w, t, isComplete, results) ==
  IF w._active_query = NullHandle THEN [complete |-> FALSE, w |-> w]
  ELSE IF isComplete
  THEN LET peers == collectPeers(results, <<>>, <<>>) IN
       [complete |-> TRUE,
        w |-> processQueryResults(
                [w EXCEPT !._cachedPeers = peers, !._lastDiscovery = t,
                          !._cacheValid = TRUE,
                          !.mdns.done = @ \cup {w._active_query}],
                peers)]
  ELSE [complete |-> FALSE, w |-> w]

\* Faulty variant of cleanupQuery: the search is not deleted
cleanupQueryNoDelete(w) ==
  [w EXCEPT !._active_query = NullHandle, !._query_in_progress = FALSE]

\* cleanupQuery
cleanupQuery(w) ==
  IF w._active_query # NullHandle
  THEN [w EXCEPT !.mdns.deleted = @ \cup {w._active_query},
                 !._active_query = NullHandle, !._query_in_progress = FALSE]
  ELSE [w EXCEPT !._query_in_progress = FALSE]

\* loop, entered at time t
loopWorker(w, t, isComplete, results, startOk) ==
  IF w._query_in_progress
  THEN LET p == pollAsyncQuery(w, t, isComplete, results) IN
       IF p.complete
       THEN [p.w EXCEPT !._query_in_progress = FALSE, !._active_query = NullHandle]
       ELSE IF queryTimedOut(t, p.w._query_start_time)
       THEN [cleanupQuery(p.w) EXCEPT !._query_in_progress = FALSE]
       ELSE p.w
  ELSE IF discoveryDue(t, w._last_discovery_time)
  THEN [startAsyncQuery(w, t, startOk) EXCEPT
          !._last_discovery_time = t, !._discovery_count = @ + 1]
  ELSE w

\* Faulty variant of triggerDiscoveryWorker: the query in flight is cancelled
triggerDiscoveryCancels(w) == [cleanupQuery(w) EXCEPT !._last_discovery_time = 0]

\* Faulty variant of triggerDiscoveryWorker: the timer is not reset
triggerDiscoveryNoReset(w) == w

\* Faulty variant of triggerDiscoveryWorker: a second call undoes the first
triggerDiscoveryToggles(w) ==
  [w EXCEPT !._last_discovery_time = IF @ = 0 THEN 1 ELSE 0]

\* triggerDiscovery
triggerDiscoveryWorker(w) == [w EXCEPT !._last_discovery_time = 0]

\* invalidateCache
invalidateCacheWorker(w) == [w EXCEPT !._cacheValid = FALSE, !._cachedPeers = <<>>]

\* The worker's fields are those of w
WorkerIs(w) ==
  /\ _cachedPeers = w._cachedPeers
  /\ _lastDiscovery = w._lastDiscovery
  /\ _cacheValid = w._cacheValid
  /\ _last_discovery_time = w._last_discovery_time
  /\ _active_query = w._active_query
  /\ _query_start_time = w._query_start_time
  /\ _query_in_progress = w._query_in_progress
  /\ _discovery_count = w._discovery_count
  /\ _last_result_count = w._last_result_count
  /\ mdns = w.mdns

\* The worker's fields after a method has run
SetWorker(w) ==
  /\ _cachedPeers' = w._cachedPeers
  /\ _lastDiscovery' = w._lastDiscovery
  /\ _cacheValid' = w._cacheValid
  /\ _last_discovery_time' = w._last_discovery_time
  /\ _active_query' = w._active_query
  /\ _query_start_time' = w._query_start_time
  /\ _query_in_progress' = w._query_in_progress
  /\ _discovery_count' = w._discovery_count
  /\ _last_result_count' = w._last_result_count
  /\ mdns' = w.mdns

(***************************************************************************)
(* HTTP requests                                                           *)
(***************************************************************************)
\* A POST body: whether deserializeJson fails on it, whether it has the key
\* "host", and doc["host"].as<String>()
JsonBody(h) == [parseError |-> FALSE, hasHost |-> TRUE, host |-> h]
BadJson     == [parseError |-> TRUE, hasHost |-> FALSE, host |-> <<>>]
NoHostKey   == [parseError |-> FALSE, hasHost |-> FALSE, host |-> <<>>]

PostBodies ==
  {BadJson, NoHostKey}
    \cup {JsonBody(h) : h \in ValidHosts \cup {HostNoDot, HostPadded, HostBlank}}

\* The part of the URI after "/loadsharing/peers/"
DeletePaths == ValidHosts \cup {HostEmpty}

\* Faulty variant of hostFormatValid: every host passes
hostFormatAlwaysValid(host) == TRUE

\* handleLoadSharingPeersPost: "Validate host is resolvable (basic check)"
hostFormatValid(host) == ~(indexOf(host, ".") = -1 /\ indexOf(host, ":") = -1)

\* handleLoadSharingPeersPost: the response chosen from addGroupPeer's result
PostResponse(added) ==
  IF ~added THEN [code |-> 400, msg |-> "Peer already in group"]
  ELSE [code |-> 200, msg |-> "done"]

\* handleLoadSharingPeersDeleteWithHost: the response chosen from removeGroupPeer's result
DeleteResponse(removed) ==
  IF ~removed THEN [code |-> 404, msg |-> "Peer not found"]
  ELSE [code |-> 200, msg |-> "done"]

(***************************************************************************)
(* The load-sharing group: LoadSharingGroupState, and the allocator and    *)
(* failsafe supervisor that work on it.  Currents are whole numbers of     *)
(* 0.1 A, the safety factor is a whole number of hundredths.               *)
(***************************************************************************)
\* Steps of the current grid in one ampere
TenthsPerAmp == 10
\* safety_factor 1.0 in hundredths
SafetyScale == 100

Amps(a) == a * TenthsPerAmp

Min2(a, b) == IF a <= b THEN a ELSE b
Max2(a, b) == IF a >= b THEN a ELSE b

RECURSIVE SumSeq(_)
SumSeq(s) == IF s = <<>> THEN 0 ELSE Head(s) + SumSeq(Tail(s))

\* The characters of a device_id, in their order
Letters == <<"a", "b", "c", "d", "e">>
letterRank(c) == CHOOSE i \in 1..Len(Letters) : Letters[i] = c

RECURSIVE lexLess(_, _)
\* x < y for strings (lexicographic)
lexLess(x, y) ==
  IF y = <<>> THEN FALSE
  ELSE IF x = <<>> THEN TRUE
  ELSE IF Head(x) = Head(y) THEN lexLess(Tail(x), Tail(y))
  ELSE letterRank(Head(x)) < letterRank(Head(y))

\* EVSE state codes: not connected, connected, charging
StateNotConnected == 1
StateConnected == 2
StateCharging == 3

\* LoadSharingPeerStatus as the constructor leaves it
NewStatus == [pilot |-> 0, vehicle |-> 0, state |-> 0]

\* LoadSharingPeer: host, device id, online flag and latest status
LoadSharingPeer(host, id, online, status) ==
  [host |-> host, id |-> id, online |-> online, status |-> status]

\* LoadSharingAllocation(id, target_current, reason)
LoadSharingAllocation(id, target, reason) ==
  [id |-> id, target_current |-> target, reason |-> reason]

\* LoadSharingGroupState::getPeerByHost: the place of the peer, 0 for nullptr
getPeerByHost(peers, host) ==
  IF \E i \in 1..Len(peers) : peers[i].host = host
  THEN CHOOSE i \in 1..Len(peers) :
         /\ peers[i].host = host
         /\ \A j \in 1..(i - 1) : peers[j].host # host
  ELSE 0

\* LoadSharingGroupState::addOrUpdatePeer
\* Faulty variant of addOrUpdatePeer: the peer is appended without a look-up
addOrUpdatePeerAppends(peers, peer) == Append(peers, peer)

\* addOrUpdatePeer: true if the peer was added, false if updated
addOrUpdatePeerReturn(peers, peer) == getPeerByHost(peers, peer.host) = 0

\* removePeer: true if a peer was removed
removePeerReturn(peers, host) == \E i \in 1..Len(peers) : peers[i].host = host

addOrUpdatePeer(peers, peer) ==
  LET existing == getPeerByHost(peers, peer.host) IN
  IF existing # 0 THEN [peers EXCEPT ![existing] = peer]
  ELSE Append(peers, peer)

\* LoadSharingGroupState::removePeer
removePeer(peers, host) ==
  LET i == getPeerByHost(peers, host) IN
  IF i = 0 THEN peers
  ELSE SubSeq(peers, 1, i - 1) \o SubSeq(peers, i + 1, Len(peers))

\* Faulty variant of updateCounts: a peer that is not online is not counted
updateCountsOnlineOnly(peers) ==
  [online  |-> Cardinality({i \in 1..Len(peers) : peers[i].online}),
   offline |-> 0]

\* LoadSharingGroupState::updateCounts
updateCounts(peers) ==
  [online  |-> Cardinality({i \in 1..Len(peers) : peers[i].online}),
   offline |-> Cardinality({i \in 1..Len(peers) : ~peers[i].online})]

(***************************************************************************)
(* Allocator: Equal-Share-With-Minimums, conservative                      *)
(***************************************************************************)
\* Faulty variant of budget: the safety factor is left out
budgetWithoutSafetyFactor(cfg) == cfg.group_max_current_a

\* group_max_current_a x safety_factor, rounded toward zero on the grid
budget(cfg) == (cfg.group_max_current_a * cfg.safety_factor) \div SafetyScale

\* The current held back for offlineCount offline peers
reserve(cfg, offlineCount) == offlineCount * cfg.failsafe_peer_assumed_current_a

\* Faulty variant of availableCurrent: nothing is held back for offline peers
availableCurrentNoReserve(cfg, offlineCount) == budget(cfg)

\* I_avail
availableCurrent(cfg, offlineCount) ==
  Max2(0, budget(cfg) - reserve(cfg, offlineCount))

\* The demand mask
chargePermitting(state) == state \in {StateConnected, StateCharging}
demands(m) == m.online /\ m.status.vehicle = 1 /\ chargePermitting(m.status.state)

\* min_i and max_i of a demanding peer
minCurrent(cfg, m) == cfg.min_current_a
maxCurrent(cfg, m) ==
  IF m.status.pilot > 0 THEN m.status.pilot
  ELSE IF cfg.node_cap_a > 0 THEN cfg.node_cap_a
  ELSE cfg.group_max_current_a

RECURSIVE insertSorted(_, _)
insertSorted(sorted, m) ==
  IF sorted = <<>> THEN <<m>>
  ELSE IF lexLess(m.id, Head(sorted).id) THEN <<m>> \o sorted
  ELSE <<Head(sorted)>> \o insertSorted(Tail(sorted), m)

\* Faulty variant of sortByDeviceId: the peers stay in the order they are stored in
sortByDeviceIdNot(ms) == ms

RECURSIVE sortByDeviceId(_)
\* The peer set in the lexicographic order of device_id
sortByDeviceId(ms) ==
  IF ms = <<>> THEN <<>>
  ELSE insertSorted(sortByDeviceId(Tail(ms)), Head(ms))

RECURSIVE distribute(_, _, _)
\* Step 2: the remainder is handed out in equal shares, each peer capped at its
\* maximum; what the caps leave over goes to the peers still below their cap
distribute(grants, caps, remainder) ==
  LET open == {i \in 1..Len(grants) : grants[i] < caps[i]}
      each == IF open = {} THEN 0 ELSE remainder \div Cardinality(open)
      next == [i \in 1..Len(grants) |->
                 IF i \in open THEN Min2(grants[i] + each, caps[i]) ELSE grants[i]]
  IN IF each = 0 THEN grants
     ELSE distribute(next, caps, remainder - (SumSeq(next) - SumSeq(grants)))

\* Faulty variant of grantMinimums: every peer gets its minimum
grantMinimumsToAll(mins, remaining) == mins

RECURSIVE grantMinimums(_, _)
\* Step 3: the minimums are granted in order while the remaining budget permits
grantMinimums(mins, remaining) ==
  IF mins = <<>> THEN <<>>
  ELSE IF Head(mins) <= remaining
       THEN <<Head(mins)>> \o grantMinimums(Tail(mins), remaining - Head(mins))
  ELSE [i \in 1..Len(mins) |-> 0]

\* The place of the member with device id among ms (0: none)
placeOf(ms, id) ==
  IF \E i \in 1..Len(ms) : ms[i].id = id
  THEN CHOOSE i \in 1..Len(ms) : ms[i].id = id
  ELSE 0

\* "if rounding introduces violation, 0.1 A is shaved from the last peer in
\* lex order"
shave(cfg, allocs) ==
  IF allocs # <<>>
     /\ SumSeq([i \in 1..Len(allocs) |-> allocs[i].target_current]) > budget(cfg)
  THEN [allocs EXCEPT ![Len(allocs)].target_current = Max2(0, @ - 1)]
  ELSE allocs

\* The allocation map for the members ms (self and the joined peers, in any
\* order), offlineCount of which are offline
allocate(cfg, ms, offlineCount) ==
  LET sorted == sortByDeviceId(ms)
      D      == SelectSeq(sorted, demands)
      avail  == availableCurrent(cfg, offlineCount)
      mins   == [i \in 1..Len(D) |-> minCurrent(cfg, D[i])]
      caps   == [i \in 1..Len(D) |-> maxCurrent(cfg, D[i])]
      enough == avail >= SumSeq(mins)
      grants == IF enough THEN distribute(mins, caps, avail - SumSeq(mins))
                ELSE grantMinimums(mins, avail)
      entry(m) ==
        IF D = <<>> THEN LoadSharingAllocation(m.id, 0, "no demand")
        ELSE IF ~m.online THEN LoadSharingAllocation(m.id, 0, "offline_reserved")
        ELSE IF ~demands(m) THEN LoadSharingAllocation(m.id, 0, "no demand")
        ELSE LET k == placeOf(D, m.id) IN
             IF enough
             THEN LoadSharingAllocation(
                    m.id, grants[k],
                    IF grants[k] = caps[k] THEN "capped_at_max" ELSE "equal_share")
             ELSE IF grants[k] > 0 THEN LoadSharingAllocation(m.id, grants[k], "")
             ELSE LoadSharingAllocation(m.id, 0, "starved_by_sort")
  IN shave(cfg, [i \in 1..Len(sorted) |-> entry(sorted[i])])

\* LoadSharingGroupState::getAllocationById, and its target
targetOf(allocs, id) ==
  LET k == placeOf(allocs, id) IN IF k = 0 THEN 0 ELSE allocs[k].target_current

(***************************************************************************)
(* Failsafe supervisor                                                     *)
(***************************************************************************)
\* Engaged when all joined peers are offline or the node has no valid status
\* of its own sensors
failsafeEngaged(counts, selfValid) ==
  (counts.offline > 0 /\ counts.online = 0) \/ ~selfValid

\* Faulty variant of superviseSelf: the safe current is emitted as it is
superviseSelfSafeCurrent(cfg, engaged, allocated) ==
  IF ~engaged THEN allocated
  ELSE IF cfg.failsafe_mode = "disable" THEN 0
  ELSE cfg.failsafe_safe_current_a

\* The self-allocation handed to the Enforcement Bridge
superviseSelf(cfg, engaged, allocated) ==
  IF ~engaged THEN allocated
  ELSE IF cfg.failsafe_mode = "disable" THEN 0
  ELSE Min2(cfg.failsafe_safe_current_a, allocated)

\* Inputs of the load-sharing group
\* This node's device id, and the peers the operator may join: the first
\* MaxJoined of the list
SelfId == <<"b">>
KnownIds == <<(<<"a">>), (<<"c">>), (<<"d">>), (<<"a", "b">>), (<<"e">>)>>
PeerIds == {KnownIds[i] : i \in 1..Min2(MaxJoined, Len(KnownIds))}
HostOf(id) == id \o DotLocal

\* Statuses a node reports: no vehicle; charging; charging with a pilot of
\* 10 A (the device "a" reports its pilot, the others do not)
StatusIdle == [pilot |-> 0, vehicle |-> 0, state |-> StateNotConnected]
StatusCharging == [pilot |-> 0, vehicle |-> 1, state |-> StateCharging]
StatusCapped == [pilot |-> Amps(10), vehicle |-> 1, state |-> StateCharging]
ReportsOf(id) ==
  IF id = <<"a">> THEN {StatusIdle, StatusCapped} ELSE {StatusIdle, StatusCharging}

\* Group configs: 20 A with a minimum of 6 A; 50 A with a safe current of 6 A;
\* 16.1 A at a safety factor of 0.85 (13.685 A, 13.6 A on the grid)
ConfigStarve ==
  [group_max_current_a |-> Amps(20), safety_factor |-> SafetyScale,
   failsafe_mode |-> "disable", failsafe_safe_current_a |-> Amps(6),
   failsafe_peer_assumed_current_a |-> Amps(6),
   min_current_a |-> Amps(6), node_cap_a |-> 0]
ConfigShare ==
  [ConfigStarve EXCEPT !.group_max_current_a = Amps(50),
                       !.failsafe_mode = "safe_current"]
ConfigRounded ==
  [ConfigStarve EXCEPT !.group_max_current_a = Amps(16) + 1,
                       !.safety_factor = SafetyScale - 15,
                       !.failsafe_mode = "safe_current",
                       !.failsafe_safe_current_a = Amps(8)]
GroupConfigs == {ConfigStarve, ConfigShare, ConfigRounded}

\* LoadSharingGroupState as its constructor leaves it
NewConfig ==
  [ConfigStarve EXCEPT !.group_max_current_a = 0]
NewSelf == [id |-> SelfId, valid |-> TRUE, status |-> StatusIdle]

\* The members the allocator works on: this node and the joined peers
Members(peers, me) ==
  <<LoadSharingPeer(HostOf(me.id), me.id, TRUE, me.status)>> \o peers

\* One computation cycle
Cycle(cfg, peers, me) ==
  LET counts  == updateCounts(peers)
      allocs  == allocate(cfg, Members(peers, me), counts.offline)
      engaged == failsafeEngaged(counts, me.valid)
  IN [counts |-> counts, allocs |-> allocs, engaged |-> engaged,
      out |-> superviseSelf(cfg, engaged, targetOf(allocs, me.id))]

\* The group state is that of a node that has not enabled load sharing
GroupIdle ==
  /\ config = NewConfig
  /\ self = NewSelf
  /\ _peers = <<>>
  /\ _allocations = <<>>
  /\ _failsafe_active = FALSE
  /\ _online_count = 0
  /\ _offline_count = 0
  /\ emitted = 0

(***************************************************************************)
(* The Limit task (LimitType, LimitProperties, Limit) and the EvseManager  *)
(* in which it holds a claim.  _version only numbers the events sent and   *)
(* is left out.                                                            *)
(***************************************************************************)
\* LimitType::fromString: the first character decides; typeStr is one of these
LimitTypeNames == {"none", "time", "energy", "soc", "range"}

\* LimitProperties::init
initLimitProperties == [type |-> "none", value |-> 0, auto_release |-> TRUE]

\* Limit::hasLimit
hasLimit(props) == props.type # "none"

\* Limit::clear
clear(props) == initLimitProperties

\* Limit::set(LimitProperties)
set(props, newProps) == newProps

\* Limit::setDefaultLimit(typeStr, value): the properties it leaves
setDefaultLimit(props, typeStr, value) ==
  LET limitprops == [type |-> typeStr, value |-> value, auto_release |-> FALSE] IN
  IF typeStr = "none" THEN clear(props)
  ELSE IF limitprops.value # 0 THEN set(props, limitprops)
  ELSE props

\* The EvseManager: for each client its claim (none, or the state claimed),
\* and whether the EVSE is charging
NoClaims == [limit |-> "none", schedule |-> "none", charging |-> FALSE]
clientHasClaim(e, client) == e[client] # "none"
release(e, client) == [e EXCEPT ![client] = "none"]
claim(e, client, state) == [e EXCEPT ![client] = state]

\* What the session's meters show when loop reads them
SessionLow  == [elapsed |-> 59, energy |-> 0, soc |-> 0, range |-> 0]
SessionHigh == [elapsed |-> 60, energy |-> 1, soc |-> 1, range |-> 1]
Sessions == {SessionLow, SessionHigh}

\* Limit::limitTime, limitEnergy, limitSoc, limitRange
limitTime(val, session) == val > 0 /\ session.elapsed \div 60 >= val
limitEnergy(val, session) == val > 0 /\ session.energy >= val
limitSoc(val, session) == val > 0 /\ session.soc >= val
limitRange(val, session) == val > 0 /\ session.range >= val

\* Limit::loop, the switch over the limit's type
limitReached(type, value, session) ==
  CASE type = "time"   -> limitTime(value, session)
    [] type = "energy" -> limitEnergy(value, session)
    [] type = "soc"    -> limitSoc(value, session)
    [] type = "range"  -> limitRange(value, session)
    [] OTHER           -> FALSE

\* Limit::loop, the session has completed: the claim is released and an
\* auto-release limit is cleared
loopSessionComplete(props, e) ==
  [props |-> IF props.auto_release THEN clear(props) ELSE props,
   evse  |-> IF clientHasClaim(e, "limit") THEN release(e, "limit") ELSE e]

\* Limit::loop, a limit is set
loopHasLimit(props, e, session, defaultState) ==
  IF e.charging
  THEN (IF limitReached(props.type, props.value, session)
        THEN claim(e, "limit", "disabled") ELSE e)
  ELSE IF props.auto_release
  THEN LET schedule_blocks_charge ==
             clientHasClaim(e, "schedule") /\ e.schedule # "active"
       IN IF schedule_blocks_charge
          THEN (IF clientHasClaim(e, "limit") THEN release(e, "limit") ELSE e)
          ELSE IF defaultState = "disabled" /\ ~clientHasClaim(e, "limit")
          THEN claim(e, "limit", "active")
          ELSE e
  ELSE e

\* Faulty variant of loopNoLimit: the claim is left in place
loopNoLimitKeepsClaim(e) == e

\* Limit::loop, no limit is set
loopNoLimit(e) == IF clientHasClaim(e, "limit") THEN release(e, "limit") ELSE e

\* Limit::loop with _evse set: the properties and the claims it leaves
loopLimit(props, e, triggered, session, defaultState) ==
  LET a == IF triggered THEN loopSessionComplete(props, e)
           ELSE [props |-> props, evse |-> e]
  IN [props |-> a.props,
      evse  |-> IF hasLimit(a.props)
                THEN loopHasLimit(a.props, a.evse, session, defaultState)
                ELSE loopNoLimit(a.evse)]

\* lh: the last step was a call of Limit::loop (ran); it found the session
\* completed (triggered); the limit and the claim it found (before, claimBefore)
NoLh == [ran |-> FALSE, triggered |-> FALSE, before |-> initLimitProperties,
         claimBefore |-> "none"]

\* The Limit object as its constructor leaves it, on an EVSE without claims
LimitIdle ==
  /\ _evse = FALSE
  /\ evse = NoClaims
  /\ _limit_properties = initLimitProperties
  /\ _sessionCompleteListener = FALSE
  /\ lh = NoLh

\* gh: the last call on the group state (none, add: addOrUpdatePeer, remove:
\* removePeer), the peer or host it was given, what it returned, and the peer
\* list it found
NoGh == [call |-> "none", host |-> <<>>, peer |-> <<>>, ret |-> FALSE,
         before |-> <<>>]

(***************************************************************************)
(* The status ingestor's subscription to one peer: the stream connection,  *)
(* the peer's last_seen and online flag, and the supervisor pass that      *)
(* watches the heartbeat.  Times are seconds of uptime.                    *)
(***************************************************************************)
\* heartbeat_timeout_s of the group config, at its default
heartbeat_timeout_s == 30

\* The clock is looked at three times per heartbeat window (the interval of
\* the ingestor's HTTP polling)
ClockStep == heartbeat_timeout_s \div 3

\* LoadSharingPeer(host): not online, last_seen 0; no stream yet
NewLink == [connected |-> FALSE, last_seen |-> 0, online |-> FALSE]

\* Faulty variant of onConnect: opening the stream counts as a sign of life
onConnectSeen(l, t) == [l EXCEPT !.connected = TRUE, !.last_seen = t]

\* The stream opens: last_seen is not updated on connect
onConnect(l, t) == [l EXCEPT !.connected = TRUE]

\* The stream disconnects: the snapshot is retained, last_seen frozen
onDisconnect(l) == [l EXCEPT !.connected = FALSE]

\* A status arrives (the HTTP fetch's response or a stream message): a
\* parse error drops it; a parsed one sets last_seen and the peer is online
onMessage(l, t, parsed) ==
  IF parsed THEN [l EXCEPT !.last_seen = t, !.online = TRUE] ELSE l

\* Supervisor pass: if now - last_seen > heartbeat_timeout_s mark online=false
supervise(l, t) ==
  IF t - l.last_seen > heartbeat_timeout_s THEN [l EXCEPT !.online = FALSE] ELSE l

\* ih: the last event (none, open, close, parsed, dropped, pass, clock),
\* whether a status of the peer was ever parsed and when the last one was,
\* and how often the stream was opened (counted up to 2)
NoIh == [ev |-> "none", heard |-> FALSE, parsed_at |-> 0, opens |-> 0]

HeartbeatIdle ==
  /\ link = NewLink
  /\ uptime = 0
  /\ ih = NoIh

(***************************************************************************)
(* Config sync between this node and one peer.  Each node holds the group  *)
(* config with config_version and config_updated_at and reports            *)
(* config_consistent; a status carries the sender's config_version and     *)
(* config_hash, the config document its version and config_updated_at.     *)
(***************************************************************************)
PeerId == KnownIds[1]
NodeIds == {SelfId, PeerId}
OtherNode(n) == IF n = SelfId THEN PeerId ELSE SelfId

\* config_hash: the digest of the critical group fields (the members are
\* the same two nodes on both sides); the other fields are not hashed
configHash(cfg) == <<cfg.group_max_current_a, cfg.safety_factor>>

\* Faulty variant of validate: every config passes
validateAnything(cfg) == TRUE

\* Schema and range checks of a received group config
validate(cfg) ==
  /\ cfg.group_max_current_a >= 0
  /\ cfg.safety_factor >= 0
  /\ cfg.safety_factor <= SafetyScale
  /\ cfg.failsafe_mode \in {"disable", "safe_current"}
  /\ cfg.failsafe_safe_current_a >= 0
  /\ cfg.failsafe_peer_assumed_current_a >= 0

\* Faulty variant of wins: the older record wins
winsOlder(a, b) ==
  \/ a.config_updated_at < b.config_updated_at
  \/ a.config_updated_at = b.config_updated_at /\ lexLess(b.device_id, a.device_id)

\* Concurrent divergent edits: the record with the greater config_updated_at
\* wins, tiebreak on device_id (higher wins)
wins(a, b) ==
  \/ a.config_updated_at > b.config_updated_at
  \/ a.config_updated_at = b.config_updated_at /\ lexLess(b.device_id, a.device_id)

\* Detection on a received peer status: match, pull, push, or hold (this
\* node is the winner of concurrent edits and waits for the loser to pull)
detect(me, peer) ==
  IF peer.config_version = me.config_version /\ configHash(peer.cfg) = configHash(me.cfg)
  THEN "match"
  ELSE IF peer.config_version > me.config_version THEN "pull"
  ELSE IF peer.config_version < me.config_version THEN "push"
  ELSE IF wins(peer, me) THEN "pull"
  ELSE "hold"

\* A config document arrives (the response to a pull, or a push): validate
\* and apply; config_version becomes the sender's, config_updated_at the
\* greater of the two.  An invalid one is rejected, the local state untouched.
adopt(me, doc) ==
  IF validate(doc.cfg)
  THEN [me EXCEPT !.cfg = doc.cfg,
                  !.config_version = doc.config_version,
                  !.config_updated_at = Max2(@, doc.config_updated_at)]
  ELSE me

\* Group config as a node has it before any edit
NewNode(id) ==
  [device_id |-> id, cfg |-> NewConfig, config_version |-> 0,
   config_updated_at |-> 0, config_consistent |-> FALSE]

\* The group configs an operator sets
EditConfigs == {ConfigStarve, ConfigShare}

\* Config documents that fail the range checks: a safety factor of 1.5, a
\* negative group maximum
Corrupted(cfg) ==
  {[cfg EXCEPT !.safety_factor = SafetyScale + (SafetyScale \div 2)],
   [cfg EXCEPT !.group_max_current_a = 0 - TenthsPerAmp]}

\* sh: the last event (none, edit, status, invalid, self), the node it
\* happened at, the nodes before it, the document that arrived, the number
\* of edits and the number of invalid documents received (counted up to 2)
NoSh == [ev |-> "none", at |-> <<>>, before |-> <<>>, doc |-> <<>>,
         edits |-> 0, invalids |-> 0]

SyncIdle ==
  /\ nodes = [n \in NodeIds |-> NewNode(n)]
  /\ sh = NoSh

ExtIdle == LimitIdle /\ gh = NoGh /\ HeartbeatIdle /\ SyncIdle

(***************************************************************************)
(* History kept for stating the properties                                 *)
(***************************************************************************)
NoCall == [kind |-> "none", host |-> <<>>]
NoResp == [code |-> 0, msg |-> ""]

\* What a fresh start would load from a file: its list, or the empty list
LoadView(file) ==
  IF file.exists /\ ~deserializeJson(file.data).error
  THEN deserializeJson(file.data).peers
  ELSE <<>>

\* hist.pair: set while a DELETE of host h directly follows a POST that added h
NoPair == [valid |-> FALSE, memBefore |-> <<>>, liveBefore |-> NoFile,
           saved |-> FALSE]
\* hist: the last request since the start.  req: none/post/delete; body: what
\* was sent; host: the host handed to the registry; called: the registry call
\* was made; ret: what it returned; saveRet: what saveGroupPeers returned
\* (none/ok/fail); wrote: none/full/short; done: the request was answered;
\* memBefore, liveBefore: the list and the live file when the request arrived
NoHist == [req |-> "none", body |-> NoHostKey, host |-> <<>>, called |-> FALSE,
           ret |-> FALSE, saveRet |-> "none", wrote |-> "none", done |-> FALSE,
           memBefore |-> <<>>, liveBefore |-> NoFile, pair |-> NoPair]
\* stop: the last power loss.  at: where the firmware was; mem: the list in RAM
\* then; old: what a start would have loaded when the interrupted request
\* arrived; opOk: the last request was an Add or Remove answered with success;
\* short: the interrupted save had written only part of the text;
\* booted: begin has run since; loadFault: it could not open the file;
\* gotMem, gotOld, gotEmpty: the list begin loaded is mem, is old, is empty
\* (mem and old are dropped once begin has compared them)
NoStop == [at |-> "none", mem |-> <<>>, old |-> <<>>, opOk |-> FALSE,
           short |-> FALSE, booted |-> FALSE, loadFault |-> FALSE,
           gotMem |-> FALSE, gotOld |-> FALSE, gotEmpty |-> FALSE]

\* dh: the discovery worker's history.  events: calls of loop, triggerDiscovery
\* and invalidateCache so far; ev: the last
\* event (start, startFail, complete, timeout, poll, idle: what a tick did;
\* trigger, invalidate); handle: the search the last tick dealt with;
\* trig: Triggers since the last tick (2 stands for two or more);
\* trigPending: a Trigger was issued since the last start; trigInFlight: it
\* was issued while a query was in flight; afterFirst: the worker right after
\* the first Trigger since the last tick (with any later invalidateCache); lastStart: when the last query was
\* started (-1: none yet); gap: at a start, the time since the start before
\* (-1: first start); forced: the start followed a Trigger; forcedBy: the
\* number of Triggers it followed; seen: the host names that have been in the
\* snapshot; timedOut: the last query that ended was cancelled by the timeout;
\* sinceFail: the calls of loop since the last cycle that failed (no search
\* started, timed out, or no peer found) that have not called startAsyncQuery
\* (-1: no failure since the last search was started); quiet: neither
\* triggerDiscovery nor invalidateCache has been called since that failure;
\* results: what mdns_query_async_get_results handed to the last completed query;
\* completedAt: when that query completed (-1: none has); dropped:
\* invalidateCache has been called since
NoDisc == [events |-> 0, ev |-> "none", handle |-> NullHandle, trig |-> 0,
           trigPending |-> FALSE, trigInFlight |-> FALSE, afterFirst |-> NewWorker,
           lastStart |-> -1, gap |-> -1, forced |-> FALSE, forcedBy |-> 0,
           seen |-> {}, timedOut |-> FALSE, sinceFail |-> -1, quiet |-> TRUE,
           results |-> <<>>, completedAt |-> -1, dropped |-> FALSE]

\* The history record of a request that starts now
StartHist(req, body) ==
  [NoHist EXCEPT
     !.req = req, !.body = body,
     !.memBefore = _groupPeers, !.liveBefore = fsLive,
     !.pair = IF /\ req = "delete" /\ hist.req = "post" /\ hist.done
                 /\ hist.called /\ hist.ret /\ hist.host = body.host
              THEN [valid |-> TRUE, memBefore |-> hist.memBefore,
                    liveBefore |-> hist.liveBefore,
                    saved |-> hist.saveRet = "ok" /\ hist.wrote = "full"]
              ELSE NoPair]

(***************************************************************************)
(* Initial state: a constructed task on a flash without a peer file        *)
(***************************************************************************)
Init ==
  /\ _groupPeers = <<>>
  /\ _groupPeersDirty = FALSE
  /\ fsLive = NoFile
  /\ fsTmp = NoFile
  /\ pc = "boot"
  /\ cur = NoCall
  /\ resp = NoResp
  /\ hist = NoHist
  /\ stop = NoStop
  /\ now = 0
  /\ WorkerIs(NewWorker)
  /\ dh = NoDisc
  /\ GroupIdle
  /\ ExtIdle

(***************************************************************************)
(* Actions                                                                 *)
(***************************************************************************)
\* LoadSharingDiscoveryTask::begin: the timers are reset, loadGroupPeers(),
\* then the task runs
begin ==
  /\ pc = "boot"
  /\ _lastDiscovery' = 0
  /\ _last_discovery_time' = 0
  /\ UNCHANGED <<now, _cachedPeers, _cacheValid, _active_query, _query_start_time,
                 _query_in_progress, _discovery_count, _last_result_count, mdns, dh>>
  /\ \E openOk \in BOOLEAN :
       LET r == loadGroupPeers(_groupPeers, _groupPeersDirty, fsLive, openOk) IN
       /\ _groupPeers' = r.peers
       /\ _groupPeersDirty' = r.dirty
       /\ stop' = IF stop.at = "none" THEN stop
                  ELSE [stop EXCEPT !.booted = TRUE,
                                    !.loadFault = fsLive.exists /\ ~openOk,
                                    !.gotMem = r.peers = stop.mem,
                                    !.gotOld = r.peers = stop.old,
                                    !.gotEmpty = r.peers = <<>>,
                                    !.mem = <<>>, !.old = <<>>]
  /\ pc' = "idle"
  /\ UNCHANGED <<fsLive, fsTmp, cur, resp, hist, groupVars, extVars>>

\* A request answered without changing the registry
Reject(h, r) ==
  /\ resp' = r
  /\ hist' = [h EXCEPT !.done = TRUE]
  /\ stop' = NoStop
  /\ UNCHANGED <<_groupPeers, _groupPeersDirty, fsLive, fsTmp, pc, cur>>

\* A registry call that changed the list and now runs saveGroupPeers
Mutate(h, kind, host, peers) ==
  /\ _groupPeers' = peers
  /\ _groupPeersDirty' = TRUE
  /\ cur' = [kind |-> kind, host |-> host]
  /\ pc' = "save_open"
  /\ hist' = h
  /\ stop' = NoStop
  /\ UNCHANGED <<fsLive, fsTmp, resp>>

\* handleLoadSharingPeersPost up to and including addGroupPeer's list update
handleLoadSharingPeersPost(body) ==
  /\ pc = "idle"
  /\ LET h0 == StartHist("post", body) IN
     IF body.parseError
     THEN Reject(h0, [code |-> 400, msg |-> "Invalid JSON"])
     ELSE IF ~body.hasHost
     THEN Reject(h0, [code |-> 400, msg |-> "Missing required 'host' parameter"])
     ELSE LET host == trim(body.host)
              h1   == [h0 EXCEPT !.host = host]
              h2   == [h1 EXCEPT !.called = TRUE]
          IN
          IF isEmpty(host)
          THEN Reject(h1, [code |-> 400, msg |-> "Host cannot be empty"])
          ELSE IF ~hostFormatValid(host)
          THEN Reject(h1, [code |-> 400,
                           msg |-> "Invalid host format - must contain domain or IP"])
          ELSE IF isDuplicatePeer(_groupPeers, host)
          THEN Reject(h2, PostResponse(FALSE))
          ELSE /\ Len(_groupPeers) < MaxPeers
               /\ Mutate(h2, "add", host, pushBack(_groupPeers, host))
  /\ UNCHANGED <<discVars, groupVars, extVars>>

\* The route /loadsharing/peers/ for DELETE, then
\* handleLoadSharingPeersDeleteWithHost up to and including removeGroupPeer's erase
handleLoadSharingPeersDeleteWithHost(host) ==
  /\ pc = "idle"
  /\ LET h0 == StartHist("delete", JsonBody(host))
         h1 == [h0 EXCEPT !.host = host, !.called = TRUE]
         i  == findPeer(_groupPeers, host)
     IN
     IF ~(Len(host) > 0)
     THEN Reject(h0, [code |-> 400, msg |-> "Invalid path"])
     ELSE IF i = 0
     THEN Reject(h1, DeleteResponse(FALSE))
     ELSE Mutate(h1, "remove", host, eraseAt(_groupPeers, i))
  /\ UNCHANGED <<discVars, groupVars, extVars>>

\* saveGroupPeers returns saveResult; the registry call returns and the
\* handler answers
Return(saveResult) ==
  LET ret == IF cur.kind = "add" THEN addGroupPeerReturn(saveResult)
             ELSE removeGroupPeerReturn(saveResult)
  IN
  /\ pc' = "idle"
  /\ cur' = NoCall
  /\ resp' = IF cur.kind = "add" THEN PostResponse(ret) ELSE DeleteResponse(ret)
  /\ hist' = [hist EXCEPT !.ret = ret, !.done = TRUE,
                          !.saveRet = IF saveResult THEN "ok" ELSE "fail"]

\* saveGroupPeers: the dirty check and LittleFS.open(tempPath, "w")
saveOpen ==
  /\ pc = "save_open"
  /\ IF ~_groupPeersDirty
     THEN Return(TRUE) /\ UNCHANGED <<fsLive, fsTmp>>
     ELSE \E openOk \in BOOLEAN :
            IF openOk
            THEN /\ fsTmp' = FileWith(<<>>)
                 /\ pc' = "save_write"
                 /\ UNCHANGED <<fsLive, cur, resp, hist>>
            ELSE Return(FALSE) /\ UNCHANGED <<fsLive, fsTmp>>
  /\ UNCHANGED <<_groupPeers, _groupPeersDirty, stop>>
  /\ UNCHANGED <<discVars, groupVars, extVars>>

\* The numbers of characters serializeJson may report as written: all of the
\* text, none of it, or (flash full, I/O error part way) all but the end.  Every
\* proper prefix of the text fails to parse alike, so one stands for them.
WrittenLengths(text) == {0, Len(text) - 1, Len(text)}

\* saveGroupPeers: serializeJson(doc, file) wrote n characters of the text, then
\* file.close(); only n = 0 is taken as a failure
saveWrite ==
  /\ pc = "save_write"
  /\ LET text == serializeJson(_groupPeers) IN
     \E n \in WrittenLengths(text) :
       /\ IF n = 0
          THEN fsTmp' = LeftBehind(FileWith(<<>>)) /\ Return(FALSE)
          ELSE /\ fsTmp' = FileWith(SubSeq(text, 1, n))
               /\ pc' = "save_remove"
               /\ hist' = [hist EXCEPT
                             !.wrote = IF n = Len(text) THEN "full" ELSE "short"]
               /\ UNCHANGED <<cur, resp>>
  /\ UNCHANGED <<_groupPeers, _groupPeersDirty, fsLive, stop>>
  /\ UNCHANGED <<discVars, groupVars, extVars>>

\* saveGroupPeers: if (LittleFS.exists(filePath)) LittleFS.remove(filePath)
saveRemove ==
  /\ pc = "save_remove"
  /\ \E removeOk \in BOOLEAN :
       fsLive' = IF fsLive.exists /\ removeOk THEN NoFile ELSE fsLive
  /\ pc' = "save_rename"
  /\ UNCHANGED <<_groupPeers, _groupPeersDirty, fsTmp, cur, resp, hist, stop>>
  /\ UNCHANGED <<discVars, groupVars, extVars>>

\* saveGroupPeers: LittleFS.rename(tempPath, filePath), then the dirty flag
saveRename ==
  /\ pc = "save_rename"
  /\ \E renameOk \in BOOLEAN :
       IF renameOk
       THEN /\ fsLive' = fsTmp
            /\ fsTmp' = NoFile
            /\ _groupPeersDirty' = FALSE
            /\ Return(TRUE)
       ELSE /\ Return(FALSE)
            /\ fsTmp' = LeftBehind(fsTmp)
            /\ UNCHANGED <<fsLive, _groupPeersDirty>>
  /\ UNCHANGED <<_groupPeers, stop>>
  /\ UNCHANGED <<discVars, groupVars, extVars>>

\* Power loss or reset: RAM is lost, flash is kept; the constructor runs again
powerLoss ==
  /\ pc # "boot"
  /\ stop' = [NoStop EXCEPT
               !.at = pc, !.mem = _groupPeers, !.old = LoadView(hist.liveBefore),
               !.opOk = hist.done /\ hist.called /\ hist.ret /\ resp.code = 200,
               !.short = hist.wrote = "short"]
  /\ hist' = NoHist
  /\ _groupPeers' = <<>>
  /\ _groupPeersDirty' = FALSE
  /\ pc' = "boot"
  /\ cur' = NoCall
  /\ resp' = NoResp
  /\ fsTmp' = LeftBehind(fsTmp)
  /\ UNCHANGED fsLive
  /\ SetWorker(NewWorker)
  /\ now' = 0
  /\ dh' = NoDisc
  /\ UNCHANGED <<groupVars, extVars>>

Next ==
  \/ begin
  \/ \E body \in PostBodies : handleLoadSharingPeersPost(body)
  \/ \E host \in DeletePaths : handleLoadSharingPeersDeleteWithHost(host)
  \/ saveOpen
  \/ saveWrite
  \/ saveRemove
  \/ saveRename
  \/ powerLoss

Spec == Init /\ [][Next]_vars

(***************************************************************************)
(* The discovery worker: a second specification.  The peer list is the one *)
(* found on flash at the start and no request changes it; the clock, the   *)
(* network's answers and the operator's Triggers are the inputs.           *)
(***************************************************************************)
\* When loop runs next: the poll interval it returned after its previous call,
\* or one unit of the clock later when MicroTask.wakeTask has been called
\* since (dh.trig counts those calls)
TickDelays(woken) == IF woken THEN {1} ELSE {Units(_poll_interval_ms)}

\* What the mDNS library may report to one call of loop: to a poll, that the
\* search is still running or that it has finished with some results; to a
\* start, a new search or NULL
LoopInputs(inProgress) ==
  IF inProgress
  THEN {[isComplete |-> FALSE, results |-> <<>>, startOk |-> TRUE]}
         \cup {[isComplete |-> TRUE, results |-> r, startOk |-> TRUE] :
                  r \in MdnsResults}
  ELSE {[isComplete |-> FALSE, results |-> <<>>, startOk |-> ok] : ok \in BOOLEAN}

\* What a call of loop did, read off the worker before (w0) and after (w1)
TickEvent(w0, w1) ==
  IF w0._query_in_progress
  THEN (IF w0._active_query \in w1.mdns.done THEN "complete"
        ELSE IF ~w1._query_in_progress THEN "timeout"
        ELSE "poll")
  ELSE (IF w1._discovery_count = w0._discovery_count THEN "idle"
        ELSE IF w1._query_in_progress THEN "start"
        ELSE "startFail")

RECURSIVE HostnamesOf(_)
HostnamesOf(peers) ==
  IF peers = <<>> THEN {} ELSE {Head(peers).hostname} \cup HostnamesOf(Tail(peers))

\* LoadSharingDiscoveryTask::loop, called at time now + d
loop ==
  /\ pc = "idle"
  /\ dh.events < MaxEvents
  /\ \E d \in TickDelays(dh.trig > 0), in \in LoopInputs(_query_in_progress) :
       LET t  == (now + d) % MillisWrap
           w  == loopWorker(Worker, t, in.isComplete, in.results, in.startOk)
           ev == TickEvent(Worker, w)
           started == ev \in {"start", "startFail"}
           failed == \/ ev \in {"startFail", "timeout"}
                     \/ ev = "complete" /\ w._last_result_count = 0
       IN
       /\ now' = t
       /\ SetWorker(w)
       /\ dh' = [dh EXCEPT
                   !.events = @ + 1,
                   !.ev = ev,
                   !.handle = IF ev = "start" THEN w._active_query ELSE _active_query,
                   !.trig = 0,
                   !.afterFirst = NewWorker,
                   !.trigPending = IF started THEN FALSE ELSE @,
                   !.forced = IF started THEN dh.trigPending ELSE @,
                   !.forcedBy = IF started THEN dh.trig ELSE @,
                   !.gap = IF ~started THEN @
                           ELSE IF dh.lastStart = -1 THEN -1
                           ELSE ElapsedSince(t, dh.lastStart),
                   !.lastStart = IF started THEN t ELSE @,
                   !.seen = @ \cup HostnamesOf(w._cachedPeers),
                   !.timedOut = IF ev = "timeout" THEN TRUE
                                ELSE IF ev = "complete" THEN FALSE ELSE @,
                   !.sinceFail = IF failed THEN 0
                                 ELSE IF ev \in {"start", "complete"} THEN -1
                                 ELSE IF @ >= 0 THEN @ + 1 ELSE @,
                   !.quiet = IF failed THEN TRUE ELSE @,
                   !.results = IF ev = "complete" THEN in.results ELSE @,
                   !.completedAt = IF ev = "complete" THEN t ELSE @,
                   !.dropped = IF ev = "complete" THEN FALSE ELSE @]
  /\ UNCHANGED <<regVars, groupVars, extVars>>

\* LoadSharingDiscoveryTask::triggerDiscovery (POST /loadsharing/discover)
triggerDiscovery ==
  /\ pc = "idle"
  /\ dh.events < MaxEvents
  /\ SetWorker(triggerDiscoveryWorker(Worker))
  /\ dh' = [dh EXCEPT
              !.ev = "trigger",
              !.events = @ + 1,
              !.trig = IF @ < 2 THEN @ + 1 ELSE 2,
              !.trigPending = TRUE,
              !.trigInFlight = (dh.trigPending /\ @) \/ _query_in_progress,
              !.quiet = FALSE,
              !.afterFirst = IF dh.trig = 0 THEN triggerDiscoveryWorker(Worker) ELSE @]
  /\ UNCHANGED <<now, regVars, groupVars, extVars>>

\* LoadSharingDiscoveryTask::invalidateCache
invalidateCache ==
  /\ pc = "idle"
  /\ dh.events < MaxEvents
  /\ SetWorker(invalidateCacheWorker(Worker))
  /\ dh' = [dh EXCEPT !.ev = "invalidate", !.events = @ + 1, !.quiet = FALSE,
                       !.dropped = TRUE,
                       !.afterFirst = IF dh.trig = 0 THEN @
                                      ELSE invalidateCacheWorker(@)]
  /\ UNCHANGED <<now, regVars, groupVars, extVars>>

\* LoadSharingDiscoveryTask::end: cleanupQuery(), then the task is stopped
end ==
  /\ pc = "idle"
  /\ SetWorker(cleanupQuery(Worker))
  /\ dh' = [dh EXCEPT !.ev = "end", !.events = @ + 1, !.handle = _active_query]
  /\ pc' = "stopped"
  /\ UNCHANGED <<now, _groupPeers, _groupPeersDirty, fsLive, fsTmp, cur, resp,
                 hist, stop, groupVars, extVars>>

\* A node that has just been switched on: the constructor has run, begin has not
FreshBoot ==
  /\ pc = "boot"
  /\ _groupPeers = <<>>
  /\ now = Units(_poll_interval_ms)
  /\ WorkerIs(NewWorker)
  /\ dh = NoDisc

\* A node that has been up for almost 2^32 ms and on which no query could be
\* started so far (mdns_query_async_new has returned NULL each time): the last
\* attempt was made a discovery interval before the clock wraps, and the next
\* call of loop is due a poll interval from now
LongUptime ==
  /\ pc = "idle"
  /\ _groupPeers = LoadView(fsLive)
  /\ now = MillisWrap - Units(_poll_interval_ms)
  /\ WorkerIs([NewWorker EXCEPT
                 !._last_discovery_time = MillisWrap - Units(_discovery_interval_ms),
                 !._discovery_count = MillisWrap \div Units(_discovery_interval_ms)])
  /\ dh = [NoDisc EXCEPT !.lastStart = MillisWrap - Units(_discovery_interval_ms)]

DiscoveryInit ==
  /\ fsLive \in {NoFile} \cup {FileWith(serializeJson(l)) : l \in GroupLists}
  /\ fsTmp = NoFile
  /\ _groupPeersDirty = FALSE
  /\ cur = NoCall
  /\ resp = NoResp
  /\ hist = NoHist
  /\ stop = NoStop
  /\ (FreshBoot \/ LongUptime)
  /\ GroupIdle
  /\ ExtIdle

DiscoveryNext ==
  \/ begin
  \/ loop
  \/ triggerDiscovery
  \/ invalidateCache

DiscoverySpec == DiscoveryInit /\ [][DiscoveryNext]_vars

\* The worker and the calls that touch its timer, under the scheduler's
\* guarantee: loop returns _poll_interval_ms, so MicroTasks calls it again a
\* poll interval later, for as long as the task runs
DiscoveryFairNext ==
  \/ begin
  \/ loop
  \/ triggerDiscovery

\* A node that has no peer file
DiscoveryFairInit == DiscoveryInit /\ fsLive = NoFile

DiscoveryFairSpec ==
  /\ DiscoveryFairInit
  /\ [][DiscoveryFairNext]_vars
  /\ WF_vars(loop)

\* The worker from begin to end: the searches it makes and what becomes of
\* their handles
LifecycleNext ==
  \/ begin
  \/ loop
  \/ end

LifecycleSpec == DiscoveryFairInit /\ [][LifecycleNext]_vars

(***************************************************************************)
(* The load-sharing group: a third specification.  The operator joins and  *)
(* removes peers, their status messages arrive and their heartbeats are    *)
(* lost, the node's own sensors come and go; every such event is followed  *)
(* by a computation cycle: updateCounts, the allocator, the failsafe       *)
(* supervisor and the emission of the self-allocation.                     *)
(***************************************************************************)
\* The group state after an event that left config cfg, peers and self me,
\* and the cycle that followed it
Recomputed(cfg, peers, me) ==
  \E c \in {Cycle(cfg, peers, me)} :
  /\ config' = cfg
  /\ self' = me
  /\ _peers' = peers
  /\ _online_count' = c.counts.online
  /\ _offline_count' = c.counts.offline
  /\ _allocations' = c.allocs
  /\ _failsafe_active' = c.engaged
  /\ emitted' = c.out

\* The operator joins a host: LoadSharingPeer(host), offline and without a
\* device id until its first status arrives
peerJoined ==
  /\ Len(_peers) < MaxJoined
  /\ \E id \in PeerIds :
       /\ getPeerByHost(_peers, HostOf(id)) = 0
       /\ Recomputed(config,
                     addOrUpdatePeer(_peers,
                                     LoadSharingPeer(HostOf(id), <<>>, FALSE, NewStatus)),
                     self)
  /\ UNCHANGED <<regVars, discVars, extVars>>

\* The operator removes a host
peerRemoved ==
  /\ \E i \in 1..Len(_peers) :
       Recomputed(config, removePeer(_peers, _peers[i].host), self)
  /\ UNCHANGED <<regVars, discVars, extVars>>

\* A status message of a joined peer: its device id and status, and it is online
statusReceived ==
  /\ \E id \in PeerIds :
       /\ getPeerByHost(_peers, HostOf(id)) # 0
       /\ \E status \in ReportsOf(id) :
            Recomputed(config,
                       addOrUpdatePeer(_peers,
                                       LoadSharingPeer(HostOf(id), id, TRUE, status)),
                       self)
  /\ UNCHANGED <<regVars, discVars, extVars>>

\* The heartbeat of an online peer is lost: offline, its status is kept
heartbeatLost ==
  /\ \E i \in 1..Len(_peers) :
       /\ _peers[i].online
       /\ Recomputed(config, [_peers EXCEPT ![i].online = FALSE], self)
  /\ UNCHANGED <<regVars, discVars, extVars>>

\* The node's own sensors: a new status, or none that is valid
selfStatusChanged ==
  /\ \E valid \in BOOLEAN, status \in {StatusIdle, StatusCharging} :
       Recomputed(config, _peers, [self EXCEPT !.valid = valid, !.status = status])
  /\ UNCHANGED <<regVars, discVars, extVars>>

\* A node with one of the group configs and no peer joined, after its first cycle
AllocatorInit ==
  /\ _groupPeers = <<>>
  /\ _groupPeersDirty = FALSE
  /\ fsLive = NoFile
  /\ fsTmp = NoFile
  /\ pc = "idle"
  /\ cur = NoCall
  /\ resp = NoResp
  /\ hist = NoHist
  /\ stop = NoStop
  /\ now = 0
  /\ WorkerIs(NewWorker)
  /\ dh = NoDisc
  /\ config \in GroupConfigs
  /\ self = NewSelf
  /\ _peers = <<>>
  /\ LET c == Cycle(config, <<>>, NewSelf) IN
     /\ _online_count = c.counts.online
     /\ _offline_count = c.counts.offline
     /\ _allocations = c.allocs
     /\ _failsafe_active = c.engaged
     /\ emitted = c.out
  /\ ExtIdle

AllocatorNext ==
  \/ peerJoined
  \/ peerRemoved
  \/ statusReceived
  \/ heartbeatLost
  \/ selfStatusChanged

AllocatorSpec == AllocatorInit /\ [][AllocatorNext]_vars

(***************************************************************************)
(* LoadSharingGroupState's peer list on its own: addOrUpdatePeer and       *)
(* removePeer called with any peer and any host.                           *)
(***************************************************************************)
\* One host more than the list is let to hold
CallHosts == {HostOf(KnownIds[i]) : i \in 1..(MaxJoined + 1)}

\* The peers handed to addOrUpdatePeer: never heard from, or with id and online flag
CallPeers ==
  {LoadSharingPeer(HostOf(KnownIds[i]), id, online, NewStatus) :
     i \in 1..(MaxJoined + 1), id \in {<<>>, <<"a">>}, online \in BOOLEAN}

callAddOrUpdatePeer ==
  /\ \E peer \in CallPeers :
       /\ getPeerByHost(_peers, peer.host) # 0 \/ Len(_peers) < MaxJoined
       /\ _peers' = addOrUpdatePeer(_peers, peer)
       /\ gh' = [call |-> "add", host |-> peer.host, peer |-> peer,
                 ret |-> addOrUpdatePeerReturn(_peers, peer), before |-> _peers]
  /\ UNCHANGED <<config, self, _allocations, _failsafe_active, _online_count,
                 _offline_count, emitted>>
  /\ UNCHANGED <<regVars, discVars, limitVars, hbVars, syncVars>>

callRemovePeer ==
  /\ \E host \in CallHosts :
       /\ _peers' = removePeer(_peers, host)
       /\ gh' = [call |-> "remove", host |-> host, peer |-> <<>>,
                 ret |-> removePeerReturn(_peers, host), before |-> _peers]
  /\ UNCHANGED <<config, self, _allocations, _failsafe_active, _online_count,
                 _offline_count, emitted>>
  /\ UNCHANGED <<regVars, discVars, limitVars, hbVars, syncVars>>

GroupStateNext ==
  \/ callAddOrUpdatePeer
  \/ callRemovePeer

GroupStateInit == Init

GroupStateSpec == GroupStateInit /\ [][GroupStateNext]_vars

(***************************************************************************)
(* The Limit task: a further specification.  Limits are set and cleared    *)
(* through the API, the EVSE starts and stops charging, the schedule       *)
(* claims and releases, sessions complete, and Limit::loop runs.           *)
(***************************************************************************)
\* The limits the API can set (LimitProperties::deserialize accepts them)
ApiLimits ==
  {[type |-> t, value |-> 1, auto_release |-> a] :
     t \in LimitTypeNames \ {"none"}, a \in BOOLEAN}

\* Limit::begin: limit_default_type and limit_default_value are the config's
limitBegin ==
  /\ ~_evse
  /\ _evse' = TRUE
  /\ \E typeStr \in {"none", "time"}, value \in {0, 1} :
       _limit_properties' = setDefaultLimit(_limit_properties, typeStr, value)
  /\ lh' = NoLh
  /\ UNCHANGED <<evse, _sessionCompleteListener>>
  /\ UNCHANGED <<regVars, discVars, groupVars, gh, hbVars, syncVars>>

\* Limit::loop; MicroTasks clears the listener's flag once the task has run
limitLoop ==
  /\ IF ~_evse
     THEN UNCHANGED <<evse, _limit_properties>>
     ELSE \E session \in Sessions, defaultState \in {"active", "disabled"} :
            \E r \in {loopLimit(_limit_properties, evse, _sessionCompleteListener,
                                session, defaultState)} :
              /\ _limit_properties' = r.props
              /\ evse' = r.evse
  /\ _sessionCompleteListener' = FALSE
  /\ lh' = [ran |-> TRUE, triggered |-> _evse /\ _sessionCompleteListener,
            before |-> _limit_properties, claimBefore |-> evse.limit]
  /\ UNCHANGED _evse
  /\ UNCHANGED <<regVars, discVars, groupVars, gh, hbVars, syncVars>>

\* Limit::set(json)
limitSet ==
  /\ \E props \in ApiLimits : _limit_properties' = set(_limit_properties, props)
  /\ lh' = NoLh
  /\ UNCHANGED <<_evse, evse, _sessionCompleteListener>>
  /\ UNCHANGED <<regVars, discVars, groupVars, gh, hbVars, syncVars>>

\* Limit::clear
limitClear ==
  /\ _limit_properties' = clear(_limit_properties)
  /\ lh' = NoLh
  /\ UNCHANGED <<_evse, evse, _sessionCompleteListener>>
  /\ UNCHANGED <<regVars, discVars, groupVars, gh, hbVars, syncVars>>

\* The EvseManager ends a session: the listener registered by Limit::begin is
\* triggered; Limit's claims are made with setAutoRelease(true), so the
\* manager may drop them itself
sessionComplete ==
  /\ _evse
  /\ _sessionCompleteListener' = TRUE
  /\ \E dropped \in BOOLEAN :
       evse' = [evse EXCEPT !.charging = FALSE,
                            !.limit = IF dropped THEN "none" ELSE @]
  /\ lh' = NoLh
  /\ UNCHANGED <<_evse, _limit_properties>>
  /\ UNCHANGED <<regVars, discVars, groupVars, gh, hbVars, syncVars>>

\* The EVSE starts or stops charging, the schedule claims or releases
evseChanges ==
  /\ \E charging \in BOOLEAN, schedule \in {"none", "active", "disabled"} :
       evse' = [evse EXCEPT !.charging = charging, !.schedule = schedule]
  /\ lh' = NoLh
  /\ UNCHANGED <<_evse, _limit_properties, _sessionCompleteListener>>
  /\ UNCHANGED <<regVars, discVars, groupVars, gh, hbVars, syncVars>>

LimitNext ==
  \/ limitBegin
  \/ limitLoop
  \/ limitSet
  \/ limitClear
  \/ sessionComplete
  \/ evseChanges

LimitInit == Init

LimitSpec == LimitInit /\ [][LimitNext]_vars

(***************************************************************************)
(* The status ingestor's subscription to one peer: a further               *)
(* specification.  The stream opens and closes, statuses arrive (over the  *)
(* stream or the HTTP fetch) and parse or not, the supervisor passes, and  *)
(* the clock moves on.                                                     *)
(***************************************************************************)
streamOpens ==
  /\ ~link.connected
  /\ link' = onConnect(link, uptime)
  /\ ih' = [ih EXCEPT !.ev = "open", !.opens = Min2(@ + 1, 2)]
  /\ UNCHANGED <<uptime, regVars, discVars, groupVars, limitVars, gh,
                 syncVars>>

streamCloses ==
  /\ link.connected
  /\ link' = onDisconnect(link)
  /\ ih' = [ih EXCEPT !.ev = "close"]
  /\ UNCHANGED <<uptime, regVars, discVars, groupVars, limitVars, gh,
                 syncVars>>

messageArrives ==
  /\ \E parsed \in BOOLEAN :
       /\ link' = onMessage(link, uptime, parsed)
       /\ ih' = IF parsed
                THEN [ih EXCEPT !.ev = "parsed", !.heard = TRUE, !.parsed_at = uptime]
                ELSE [ih EXCEPT !.ev = "dropped"]
  /\ UNCHANGED <<uptime, regVars, discVars, groupVars, limitVars, gh,
                 syncVars>>

supervisorPass ==
  /\ link' = supervise(link, uptime)
  /\ ih' = [ih EXCEPT !.ev = "pass"]
  /\ UNCHANGED <<uptime, regVars, discVars, groupVars, limitVars, gh,
                 syncVars>>

secondsPass ==
  /\ uptime + ClockStep <= MaxUptime
  /\ uptime' = uptime + ClockStep
  /\ ih' = [ih EXCEPT !.ev = "clock"]
  /\ UNCHANGED <<link, regVars, discVars, groupVars, limitVars, gh,
                 syncVars>>

HeartbeatNext ==
  \/ streamOpens
  \/ streamCloses
  \/ messageArrives
  \/ supervisorPass
  \/ secondsPass

HeartbeatInit == Init

HeartbeatSpec == HeartbeatInit /\ [][HeartbeatNext]_vars

(***************************************************************************)
(* Config sync: a further specification.  Operators edit the group config  *)
(* on either node, each node receives the other's status again and again   *)
(* and pulls or pushes, invalid config documents arrive, and this node's   *)
(* vehicle starts and stops charging.  This node's group config is the one *)
(* its allocator works on.                                                 *)
(***************************************************************************)
\* A change of this node's group config is followed by a computation cycle
Applied ==
  IF nodes'[SelfId].cfg # config
  THEN Recomputed(nodes'[SelfId].cfg, _peers, self)
  ELSE UNCHANGED groupVars

operatorEdits ==
  /\ sh.edits < MaxEdits
  /\ \E n \in NodeIds, cfg \in EditConfigs, t \in 1..MaxStamp :
       /\ cfg # nodes[n].cfg
       /\ nodes' = [nodes EXCEPT ![n] = [@ EXCEPT !.cfg = cfg,
                                                  !.config_version = @ + 1,
                                                  !.config_updated_at = t]]
       /\ sh' = [sh EXCEPT !.ev = "edit", !.at = n, !.before = nodes,
                           !.doc = <<>>, !.edits = @ + 1]
  /\ Applied
  /\ UNCHANGED <<regVars, discVars, limitVars, gh, hbVars>>

\* Node n runs the detection on a status of the other node: on a match it
\* is consistent; it pulls the other's config, or pushes its own to it
detection(n) ==
  \E m \in {OtherNode(n)}, d \in {detect(nodes[n], nodes[OtherNode(n)])} :
    /\ nodes' =
         IF d = "match"
         THEN [nodes EXCEPT ![n].config_consistent = TRUE]
         ELSE IF d = "pull"
         THEN [nodes EXCEPT ![n] = [adopt(@, nodes[m]) EXCEPT !.config_consistent = FALSE]]
         ELSE IF d = "push"
         THEN [nodes EXCEPT ![n].config_consistent = FALSE,
                            ![m] = adopt(@, nodes[n])]
         ELSE [nodes EXCEPT ![n].config_consistent = FALSE]
    /\ sh' = [sh EXCEPT !.ev = "status", !.at = n, !.before = nodes,
                        !.doc = <<>>]

\* Node n receives the status of the other node
statusArrivesAt(n) ==
  /\ detection(n)
  /\ Applied
  /\ UNCHANGED <<regVars, discVars, limitVars, gh, hbVars>>

\* Node n receives a config document of the other node that fails the checks
invalidArrives ==
  /\ \E n \in NodeIds :
       \E bad \in Corrupted(nodes[OtherNode(n)].cfg) :
         /\ nodes' = [nodes EXCEPT ![n] = adopt(@, [nodes[OtherNode(n)] EXCEPT !.cfg = bad])]
         /\ sh' = [sh EXCEPT !.ev = "invalid", !.at = n, !.before = nodes,
                             !.doc = bad, !.invalids = Min2(@ + 1, 2)]
  /\ Applied
  /\ UNCHANGED <<regVars, discVars, limitVars, gh, hbVars>>

\* This node's vehicle starts or stops charging
selfCharges ==
  /\ \E status \in {StatusIdle, StatusCharging} :
       /\ status # self.status
       /\ Recomputed(config, _peers, [self EXCEPT !.status = status])
  /\ sh' = [sh EXCEPT !.ev = "self", !.at = SelfId, !.before = nodes, !.doc = <<>>]
  /\ UNCHANGED <<nodes, regVars, discVars, limitVars, gh, hbVars>>

SyncNext ==
  \/ operatorEdits
  \/ statusArrivesAt(SelfId)
  \/ statusArrivesAt(PeerId)
  \/ invalidArrives
  \/ selfCharges

SyncInit == Init

\* Both nodes are reachable: each keeps receiving the other's status and
\* running the detection on it
SyncSpec ==
  /\ SyncInit
  /\ [][SyncNext]_vars
  /\ WF_syncVars(detection(SelfId))
  /\ WF_syncVars(detection(PeerId))

(***************************************************************************)
(* Definitions used to state the properties                                *)
(***************************************************************************)
SavePcs == {"save_open", "save_write", "save_remove", "save_rename"}

Contains(peers, h) == \E i \in 1..Len(peers) : peers[i] = h

UpperLetters == <<"A", "B", "C", "D", "E", "F", "G", "H", "I", "J", "K", "L", "M",
                  "N", "O", "P", "Q", "R", "S", "T", "U", "V", "W", "X", "Y", "Z">>
LowerLetters == <<"a", "b", "c", "d", "e", "f", "g", "h", "i", "j", "k", "l", "m",
                  "n", "o", "p", "q", "r", "s", "t", "u", "v", "w", "x", "y", "z">>
LowerChar(c) ==
  IF \E k \in 1..Len(UpperLetters) : UpperLetters[k] = c
  THEN LowerLetters[CHOOSE k \in 1..Len(UpperLetters) : UpperLetters[k] = c]
  ELSE c
ToLower(s) == [i \in 1..Len(s) |-> LowerChar(s[i])]
EqualsIgnoreCase(a, b) == ToLower(a) = ToLower(b)
ContainsIgnoreCase(peers, h) == \E i \in 1..Len(peers) : EqualsIgnoreCase(peers[i], h)

HasDotOrColon(h) == \E i \in 1..Len(h) : h[i] = "." \/ h[i] = ":"

\* Discovery snapshots a reader may meet while listing peers
DiscoveredPeer(h) == [hostname |-> h, ipAddress |-> <<"1", ".", "2">>]
Snapshots ==
  {<<>>} \cup {<<DiscoveredPeer(h)>> : h \in ValidHosts}
         \cup {<<DiscoveredPeer(HostA), DiscoveredPeer(SelfHost)>>}

\* host is listed by GET /loadsharing/peers with joined = j, whatever is discovered
ListedJoined(host, j) ==
  \A snap \in Snapshots :
    LET all == getAllPeers(snap, _groupPeers, TRUE, TRUE) IN
    \E k \in 1..Len(all) : all[k].hostname = host /\ all[k].joined = j
\* host is not listed with joined = TRUE, whatever is discovered
NotListedJoined(host) ==
  \A snap \in Snapshots :
    LET all == getAllPeers(snap, _groupPeers, TRUE, TRUE) IN
    \A k \in 1..Len(all) : all[k].hostname = host => ~all[k].joined

\* The last request was answered and the firmware is idle again
Answered == pc = "idle" /\ hist.done

(***************************************************************************)
(* C1: saving the peer list is atomic against power loss: when power is    *)
(* lost at any point inside saveGroupPeers (no I/O call having failed),    *)
(* the list loaded by the next start is the list that was durable before   *)
(* the save began or the list being saved.                                 *)
(***************************************************************************)
C1_SaveAtomicAgainstPowerLoss ==
  (stop.booted /\ stop.at \in SavePcs /\ ~stop.short /\ ~stop.loadFault)
    => (stop.gotOld \/ stop.gotMem)

(***************************************************************************)
(* C2: after an Add or Remove that reported success, a restart loads       *)
(* exactly the list that was in memory just before the restart.            *)
(***************************************************************************)
C2_RestartLoadsListOfSuccessfulChange ==
  (stop.booted /\ stop.at = "idle" /\ stop.opOk /\ ~stop.loadFault) => stop.gotMem

(***************************************************************************)
(* C3: a persistence failure during Add or Remove is returned to the       *)
(* caller: when saveGroupPeers failed, the registry call and the HTTP      *)
(* response do not report plain success.                                   *)
(***************************************************************************)
C3_PersistenceFailureReported ==
  (Answered /\ hist.saveRet = "fail") => ~(hist.ret /\ resp.code = 200)

(***************************************************************************)
(* C4: when the durable write fails during Add or Remove, the in-memory    *)
(* change is still applied: after a failed-to-persist Add the host is in   *)
(* the list and is listed with joined = true; after a failed-to-persist    *)
(* Remove it is absent and no longer listed as joined.                     *)
(***************************************************************************)
C4_FailedSaveKeepsMutation ==
  (Answered /\ hist.saveRet = "fail") =>
    /\ hist.req = "post" =>
         /\ _groupPeers = hist.memBefore \o <<hist.host>>
         /\ ListedJoined(hist.host, TRUE)
    /\ hist.req = "delete" =>
         /\ ~Contains(_groupPeers, hist.host)
         /\ Len(_groupPeers) = Len(hist.memBefore) - 1
         /\ NotListedJoined(hist.host)

C4_Witness ==
  /\ Answered /\ hist.saveRet = "fail" /\ hist.req = "post"
  /\ Contains(_groupPeers, hist.host) /\ ~Contains(hist.memBefore, hist.host)
  /\ LoadView(fsLive) # _groupPeers

(***************************************************************************)
(* C5: every rejected operator request leaves the registry untouched:      *)
(* POST with invalid JSON, a missing or empty host, a host with neither    *)
(* '.' nor ':', or a host already in the group answers 400; DELETE of a    *)
(* host not in the group answers 404; and after any 400 or 404 the list    *)
(* in memory, its dirty flag and the persisted file are as before.         *)
(***************************************************************************)
PostMustBeRejected(body, peers) ==
  \/ body.parseError
  \/ ~body.hasHost
  \/ body.host = <<>>
  \/ ~HasDotOrColon(body.host)
  \/ Contains(peers, body.host)

C5_RejectedRequestsChangeNothing ==
  Answered =>
    /\ (hist.req = "post" /\ PostMustBeRejected(hist.body, hist.memBefore))
         => resp.code = 400
    /\ (hist.req = "delete" /\ hist.body.host # <<>>
          /\ ~Contains(hist.memBefore, hist.body.host))
         => resp.code = 404
    /\ resp.code \in {400, 404} =>
         /\ _groupPeers = hist.memBefore
         /\ fsLive = hist.liveBefore
         /\ hist.saveRet = "none"

C5_Witness ==
  /\ Answered /\ hist.req = "post" /\ hist.body = JsonBody(HostNoDot)
  /\ resp.code = 400
  /\ hist.memBefore # <<>> /\ hist.liveBefore.exists

(***************************************************************************)
(* C6: Add rejects duplicates: the list never holds a host name twice, and *)
(* an Add of a host that is already present fails and changes nothing.     *)
(***************************************************************************)
C6_NoDuplicateHosts ==
  /\ \A i, j \in 1..Len(_groupPeers) : i # j => _groupPeers[i] # _groupPeers[j]
  /\ (Answered /\ hist.req = "post" /\ hist.called
        /\ Contains(hist.memBefore, hist.host))
       => (~hist.ret /\ resp.code = 400 /\ _groupPeers = hist.memBefore)

C6_Witness ==
  /\ Answered /\ hist.req = "post" /\ hist.called
  /\ Contains(hist.memBefore, hist.host) /\ ~hist.ret
  /\ Len(_groupPeers) = 2

(***************************************************************************)
(* C7: the host is a case-insensitive unique key: no two entries of the    *)
(* list are equal when compared ignoring letter case.                      *)
(***************************************************************************)
C7_NoCaseInsensitiveDuplicates ==
  \A i, j \in 1..Len(_groupPeers) :
    i # j => ~EqualsIgnoreCase(_groupPeers[i], _groupPeers[j])

(***************************************************************************)
(* C8: Remove(host) matches ignoring letter case: it succeeds exactly when *)
(* the list holds an entry equal to host ignoring case, and then no such   *)
(* entry is left.                                                          *)
(***************************************************************************)
C8_RemoveMatchesIgnoringCase ==
  (Answered /\ hist.req = "delete" /\ hist.called) =>
    /\ hist.ret <=> ContainsIgnoreCase(hist.memBefore, hist.host)
    /\ hist.ret => ~ContainsIgnoreCase(_groupPeers, hist.host)

(***************************************************************************)
(* C9: Add rejects the node's own host: the node's own host name is never  *)
(* a member of its peer list.                                              *)
(***************************************************************************)
C9_SelfNeverInList == ~Contains(_groupPeers, SelfHost)

(***************************************************************************)
(* C10: Add(h) directly followed by Remove(h), for a valid h not in the    *)
(* list, returns the registry to its prior content.                        *)
(* As stated: the same hosts in the same order in memory and, when both    *)
(* writes succeeded, the same persisted document as before the Add.        *)
(***************************************************************************)
BothWritesSucceeded ==
  hist.pair.saved /\ hist.saveRet = "ok" /\ hist.wrote = "full"

C10_AddRemoveRestoresMemoryAndFile ==
  (Answered /\ hist.req = "delete" /\ hist.ret /\ hist.pair.valid) =>
    /\ _groupPeers = hist.pair.memBefore
    /\ BothWritesSucceeded => fsLive = hist.pair.liveBefore

(***************************************************************************)
(* C10 as amended: the list in memory is the one before the Add, and when  *)
(* both writes succeeded the persisted file is the document a save writes  *)
(* for that list (the file of before only if that file already was this    *)
(* document; a missing or stale file has been replaced by it).             *)
(***************************************************************************)
C10_AddRemoveRestoresList ==
  (Answered /\ hist.req = "delete" /\ hist.ret /\ hist.pair.valid) =>
    /\ _groupPeers = hist.pair.memBefore
    /\ BothWritesSucceeded =>
         /\ fsLive = FileWith(serializeJson(hist.pair.memBefore))
         /\ LoadView(fsLive) = hist.pair.memBefore
         /\ (hist.pair.liveBefore = FileWith(serializeJson(hist.pair.memBefore))
               => fsLive = hist.pair.liveBefore)

C10_Witness ==
  /\ Answered /\ hist.req = "delete" /\ hist.ret /\ hist.pair.valid
  /\ BothWritesSucceeded
  /\ hist.pair.memBefore # <<>>
  /\ fsLive # hist.pair.liveBefore

(***************************************************************************)
(* Definitions used to state the properties of the discovery worker        *)
(***************************************************************************)
\* The hosts of the discovery snapshot and of the configured list
SnapshotHosts == HostnamesOf(_cachedPeers)
GroupHosts == {_groupPeers[i] : i \in 1..Len(_groupPeers)}

\* What GET /loadsharing/peers lists
ListAll == getAllPeers(_cachedPeers, _groupPeers, TRUE, TRUE)

\* The task has been started
Running == pc = "idle"

C12_FlagsUnderEveryCombination ==
  Running =>
    \A includeDiscovered, includeGroup \in BOOLEAN :
      LET all == getAllPeers(_cachedPeers, _groupPeers, includeDiscovered, includeGroup)
      IN \A k \in 1..Len(all) :
           /\ all[k].joined <=> all[k].hostname \in GroupHosts
           /\ all[k].online <=> all[k].hostname \in SnapshotHosts

(***************************************************************************)
(* C13: discovery is not membership: no event of the discovery worker (a   *)
(* call of loop whatever it does, a Trigger, a cache invalidation) changes *)
(* the configured list, its order, its dirty flag or its files; and every  *)
(* configured peer is listed with joined = true whether or not it is in    *)
(* the snapshot, also after it has disappeared from it.                    *)
(***************************************************************************)
C13_DiscoveryIsNotMembership ==
  /\ [][dh'.events # dh.events =>
          UNCHANGED <<_groupPeers, _groupPeersDirty, fsLive, fsTmp>>]_vars
  /\ [](Running =>
          \A h \in GroupHosts :
            \E k \in 1..Len(ListAll) :
              /\ ListAll[k].hostname = h
              /\ ListAll[k].joined
              /\ ListAll[k].online <=> h \in SnapshotHosts)

C13_Witness ==
  /\ Running
  /\ HostALocal \in GroupHosts
  /\ HostALocal \in dh.seen
  /\ HostALocal \notin SnapshotHosts
  /\ dh.ev \in {"complete", "invalidate"}

(***************************************************************************)
(* C14: the discovery worker goes Idle -> QueryInFlight -> Idle: a query   *)
(* is started only by a call of loop that finds none in flight, so at most *)
(* one search is in flight in every reachable state, and it is the one the *)
(* worker holds while _query_in_progress is set.                           *)
(***************************************************************************)
C14_AtMostOneQueryInFlight ==
  /\ Cardinality(InFlight(mdns)) <= 1
  /\ _query_in_progress => InFlight(mdns) = {_active_query}
  /\ ~_query_in_progress => InFlight(mdns) = {}
  /\ dh.ev = "start" => InFlight(mdns) = {dh.handle}

C14_Witness ==
  /\ dh.ev = "start"
  /\ mdns.made >= 2
  /\ InFlight(mdns) = {_active_query}

(***************************************************************************)
(* C15: a Trigger issued while a query is in flight never pre-empts it:    *)
(* the Trigger leaves the query, its handle, its start time and the        *)
(* library's searches unchanged, and a query in flight ends only in a call *)
(* of loop that finds it complete or finds it older than the query         *)
(* timeout.                                                                *)
(***************************************************************************)
C15_TriggerNeverPreempts ==
  /\ [][(dh'.events # dh.events /\ dh'.ev = "trigger" /\ _query_in_progress) =>
          /\ _query_in_progress'
          /\ _active_query' = _active_query
          /\ _query_start_time' = _query_start_time
          /\ mdns' = mdns]_vars
  /\ [][(_query_in_progress /\ ~_query_in_progress') =>
          /\ dh'.ev \in {"complete", "timeout"}
          /\ dh'.ev = "timeout" =>
               ElapsedSince(now', _query_start_time) > Units(_query_timeout_ms)]_vars

C15_Witness ==
  /\ dh.ev = "complete"
  /\ dh.trigPending
  /\ dh.trigInFlight

(***************************************************************************)
(* C16: Trigger forces the next periodic tick to be "now": after a         *)
(* Trigger, the first call of loop that finds no query in flight calls     *)
(* startAsyncQuery, however little time has passed since the previous      *)
(* start, also when the Trigger arrived while a query was in flight.       *)
(***************************************************************************)
C16_TriggerForcesNextIdleTick ==
  /\ dh.ev = "idle" => ~dh.trigPending
  /\ (dh.trigPending /\ dh.ev \in {"trigger", "complete", "timeout", "poll"})
       => _last_discovery_time = 0

C16_Witness ==
  /\ dh.ev = "start"
  /\ dh.forced
  /\ dh.trigInFlight
  /\ dh.gap # -1
  /\ dh.gap < Units(_discovery_interval_ms)

(***************************************************************************)
(* C17: Trigger is idempotent: after two or more Triggers before the next  *)
(* call of loop the worker is in the state the first one left, and the     *)
(* start they force is one start that uses them all up.                    *)
(***************************************************************************)
C17_TriggerIdempotent ==
  /\ dh.ev = "trigger" => Worker = dh.afterFirst
  /\ (dh.ev \in {"start", "startFail"} /\ dh.forced) =>
       /\ ~dh.trigPending
       /\ _last_discovery_time = now

C17_Witness ==
  /\ dh.ev = "start"
  /\ dh.forced
  /\ dh.forcedBy >= 2
  /\ mdns.made >= 2

(***************************************************************************)
(* C18: without a Trigger and after the first query has been started, a    *)
(* call of loop starts a query exactly when none is in flight and          *)
(* now - last_started >= discovery_interval: two consecutive starts are    *)
(* never closer than the discovery interval, and a call that finds no      *)
(* query in flight past the interval always starts one.                    *)
(***************************************************************************)
C18_PeriodicStartsRespectInterval ==
  /\ (dh.ev \in {"start", "startFail"} /\ dh.gap # -1 /\ ~dh.forced)
       => dh.gap >= Units(_discovery_interval_ms)
  /\ (dh.ev = "idle" /\ ~dh.trigPending /\ dh.lastStart # -1)
       => ElapsedSince(now, dh.lastStart) < Units(_discovery_interval_ms)

(***************************************************************************)
(* C19: a query that has been in flight longer than the query timeout      *)
(* without completing is cancelled by the next call of loop: its handle is *)
(* deleted and the worker is idle after that call (and a later call can    *)
(* start a new query); a query not older than the timeout is not           *)
(* cancelled.                                                              *)
(***************************************************************************)
C19_TimedOutQueryCancelled ==
  /\ dh.ev = "timeout" =>
       /\ dh.handle # NullHandle
       /\ dh.handle \in mdns.deleted
       /\ ~_query_in_progress
       /\ _active_query = NullHandle
       /\ InFlight(mdns) = {}
       /\ ElapsedSince(now, _query_start_time) > Units(_query_timeout_ms)
  /\ dh.ev = "poll" =>
       /\ _query_in_progress
       /\ ElapsedSince(now, _query_start_time) <= Units(_query_timeout_ms)

C19_Witness ==
  /\ dh.ev = "start"
  /\ dh.timedOut
  /\ dh.handle \notin mdns.deleted
  /\ mdns.deleted # {}

(***************************************************************************)
(* C20: a discovery cycle that ends in a network error (the query could    *)
(* not be started), in an empty result or in a timeout leaves an empty but *)
(* fresh snapshot: the cached peer list is empty and its timestamp is the  *)
(* time of that cycle's end.                                               *)
(***************************************************************************)
C20_FailedCycleEmptiesSnapshot ==
  (\/ dh.ev \in {"startFail", "timeout"}
   \/ dh.ev = "complete" /\ _last_result_count = 0)
    => (_cachedPeers = <<>> /\ _cacheValid /\ _lastDiscovery = now)

(***************************************************************************)
(* C21: a failed discovery cycle (startAsyncQuery got no search, the query *)
(* timed out, or it completed without a peer) never ends the loop: the     *)
(* worker is idle afterwards, with no search held, and one of the next     *)
(* TicksPerInterval calls of loop calls startAsyncQuery again.  Under the  *)
(* scheduler's fairness that call is eventually made: a failure leads to a *)
(* new start attempt (in runs the operator leaves alone, for which enough  *)
(* of the explored run is left).                                           *)
(***************************************************************************)
\* Calls of loop that make up one discovery interval
TicksPerInterval == _discovery_interval_ms \div _poll_interval_ms

FailedCycle == dh.ev \in {"startFail", "timeout", "complete"} /\ dh.sinceFail = 0

C21_IdleAfterFailure ==
  dh.sinceFail >= 0 =>
    /\ ~_query_in_progress
    /\ _active_query = NullHandle
    /\ InFlight(mdns) = {}
    /\ dh.sinceFail < TicksPerInterval

C21_FailureNeverStopsDiscovery ==
  /\ []C21_IdleAfterFailure
  /\ \A e \in 0..(MaxEvents - TicksPerInterval) :
       (FailedCycle /\ dh.events = e)
         ~> (\/ dh.ev \in {"start", "startFail"} /\ dh.events > e
             \/ ~dh.quiet)

\* The query after a failed one has been started, the run left alone
C21_Witness ==
  /\ dh.ev = "start"
  /\ dh.quiet
  /\ dh.timedOut
  /\ dh.gap >= Units(_discovery_interval_ms)

(***************************************************************************)
(* C22: right after a query has completed the snapshot has one entry for   *)
(* every host name among the results and no two entries with the same host *)
(* name; the entry of a host name is built from the first result with that *)
(* name (its address, port and TXT records), and the entries stand in the  *)
(* order of those first results.                                           *)
(***************************************************************************)
\* The place of the first result that carries the host name h (0: none)
FirstResultNamed(results, h) ==
  IF \E k \in 1..Len(results) : buildPeer(results[k]).hostname = h
  THEN CHOOSE k \in 1..Len(results) :
         /\ buildPeer(results[k]).hostname = h
         /\ \A j \in 1..(k - 1) : buildPeer(results[j]).hostname # h
  ELSE 0

C22_FirstOccurrenceWins ==
  dh.ev = "complete" =>
    /\ \A i, j \in 1..Len(_cachedPeers) :
         _cachedPeers[i].hostname = _cachedPeers[j].hostname => i = j
    /\ \A i \in 1..Len(_cachedPeers) :
         LET k == FirstResultNamed(dh.results, _cachedPeers[i].hostname) IN
         /\ k > 0
         /\ _cachedPeers[i].ipAddress = buildPeer(dh.results[k]).ipAddress
         /\ _cachedPeers[i].port = dh.results[k].port
         /\ _cachedPeers[i].txtRecords = buildPeer(dh.results[k]).txtRecords
    /\ \A i, j \in 1..Len(_cachedPeers) :
         i < j => FirstResultNamed(dh.results, _cachedPeers[i].hostname)
                    < FirstResultNamed(dh.results, _cachedPeers[j].hostname)
    /\ \A k \in 1..Len(dh.results) :
         buildPeer(dh.results[k]).hostname # NullStr =>
           \E i \in 1..Len(_cachedPeers) :
              _cachedPeers[i].hostname = buildPeer(dh.results[k]).hostname

\* A device has answered twice, with two addresses, ports and TXT records
C22_Witness ==
  /\ dh.ev = "complete"
  /\ \E k, l \in 1..Len(dh.results) :
       /\ k < l
       /\ buildPeer(dh.results[k]).hostname = buildPeer(dh.results[l]).hostname
       /\ buildPeer(dh.results[k]).ipAddress # buildPeer(dh.results[l]).ipAddress
       /\ dh.results[k].port # dh.results[l].port
       /\ buildPeer(dh.results[k]).txtRecords # buildPeer(dh.results[l]).txtRecords
  /\ Len(_cachedPeers) = 2
  /\ _cachedPeers[1].txtRecords = {<<(<<"i", "d">>), (<<"1">>)>>}

(***************************************************************************)
(* C23: getCachedPeers returns the peers of the last completed query, the  *)
(* empty list before the first completion.  As stated (whatever else has   *)
(* been called) this fails: invalidateCache empties the snapshot.          *)
(***************************************************************************)
\* The peers of the last completed query
LastCompleted == collectPeers(dh.results, <<>>, <<>>)

C23_SnapshotIsLastCompleted == _cachedPeers = LastCompleted

(***************************************************************************)
(* C23, amended: the list, its timestamp and the valid flag are those of   *)
(* the last completed query (empty, 0 and not valid before the first one)  *)
(* in every state that a reader can see, also while a later query is in    *)
(* flight, has timed out or could not be started; after invalidateCache    *)
(* the list is empty and not valid until the next completion.              *)
(***************************************************************************)
C23_SnapshotSwappedOnCompletion ==
  /\ _cachedPeers = IF dh.dropped THEN <<>> ELSE LastCompleted
  /\ _cacheValid = (dh.completedAt # -1 /\ ~dh.dropped)
  /\ _lastDiscovery = IF dh.completedAt = -1 THEN 0 ELSE dh.completedAt

\* A later query is in flight and readers see the two peers of the one before
C23_Witness ==
  /\ _query_in_progress
  /\ dh.ev = "poll"
  /\ ~dh.dropped
  /\ _cacheValid
  /\ Len(_cachedPeers) = 2
  /\ _query_start_time # _lastDiscovery

(***************************************************************************)
(* C24: begin always completes and leaves the task running; when the peer  *)
(* file is missing, cannot be opened or does not parse, the list it leaves *)
(* is empty.                                                               *)
(***************************************************************************)
\* The peer file as begin found it: missing, not opened, or not a JSON document
FileMissing == ~fsLive.exists
FileNotOpened == stop.booted /\ stop.loadFault
FileCorrupt == fsLive.exists /\ deserializeJson(fsLive.data).error

C24_UnusableFileStartsEmpty ==
  [][pc = "boot" =>
       /\ pc' = "idle"
       /\ fsLive' = fsLive
       /\ (FileMissing' \/ FileNotOpened' \/ FileCorrupt') => _groupPeers' = <<>>]_vars

\* The node has restarted on a file cut short by a power loss
C24_Witness ==
  /\ pc = "idle"
  /\ hist.req = "none"
  /\ stop.booted
  /\ FileCorrupt
  /\ ~FileNotOpened
  /\ _groupPeers = <<>>

(***************************************************************************)
(* Definitions used to state the properties of the load-sharing group      *)
(***************************************************************************)
\* The targets of the allocation map, and their sum
Targets == [i \in 1..Len(_allocations) |-> _allocations[i].target_current]
TotalTarget == SumSeq(Targets)

\* The members as the allocator got them, and the demanding ones
GroupMembers == Members(_peers, self)
Demanding == {i \in 1..Len(GroupMembers) : demands(GroupMembers[i])}
OfflinePeers == {i \in 1..Len(_peers) : ~_peers[i].online}

\* max(0, group_max x safety_factor - k x assumed_offline) on the 0.1 A grid,
\* k the number of joined peers that are offline
ExpectedAvailable ==
  Max2(0, (config.group_max_current_a * config.safety_factor) \div SafetyScale
            - Cardinality(OfflinePeers) * config.failsafe_peer_assumed_current_a)

\* What the map gives the member at place i of GroupMembers
Granted(i) ==
  LET k == CHOOSE k \in 1..Len(_allocations) :
             /\ _allocations[k].id = GroupMembers[i].id
             /\ GroupMembers[i].online =>
                  \/ _allocations[k].target_current > 0
                  \/ ~\E l \in 1..Len(_allocations) :
                        /\ _allocations[l].id = GroupMembers[i].id
                        /\ _allocations[l].target_current > 0
  IN _allocations[k]

(***************************************************************************)
(* C25: the map has an entry for this node and for every joined peer, and  *)
(* the targets add up to no more than group_max_current_a x safety_factor  *)
(* (the exact product, not the rounded one).                               *)
(***************************************************************************)
C25_TotalWithinBudget ==
  /\ Len(_allocations) = Len(_peers) + 1
  /\ \A i \in 1..Len(_allocations) : _allocations[i].target_current >= 0
  /\ TotalTarget * SafetyScale <= config.group_max_current_a * config.safety_factor

\* 16.1 A x 0.85 = 13.685 A: two demanding nodes get 6.8 A each
C25_Witness ==
  /\ config = ConfigRounded
  /\ Cardinality(Demanding) = 2
  /\ TotalTarget = Amps(13) + 6
  /\ TotalTarget * SafetyScale < config.group_max_current_a * config.safety_factor

(***************************************************************************)
(* C26: with k joined peers offline the online peers share                 *)
(* max(0, group_max x safety_factor - k x assumed_offline): their targets  *)
(* add up to no more than that, an offline peer gets 0 A, and when the     *)
(* minimums fit and no cap is reached all of it but the rounding (less     *)
(* than 0.1 A for each demanding peer) is handed out.                      *)
(***************************************************************************)
C26_OfflineReservedFirst ==
  /\ TotalTarget <= ExpectedAvailable
  /\ \A i \in 1..Len(GroupMembers) :
       ~GroupMembers[i].online => Granted(i).target_current = 0
  /\ (/\ Demanding # {}
      /\ ExpectedAvailable >= Cardinality(Demanding) * config.min_current_a
      /\ \A i \in Demanding : Granted(i).reason = "equal_share")
     => TotalTarget > ExpectedAvailable - Cardinality(Demanding)

\* 50 A, one of two joined peers offline: the two online nodes get 22 A each
C26_Witness ==
  /\ config = ConfigShare
  /\ Cardinality(OfflinePeers) = 1
  /\ ExpectedAvailable = Amps(44)
  /\ Cardinality(Demanding) = 2
  /\ \A i \in Demanding : Granted(i).target_current = Amps(22)

(***************************************************************************)
(* C27: the map is the one the allocator computes from the config, the     *)
(* members and their statuses and online flags in whatever order the       *)
(* members are stored, and its entries stand in the order of device_id.    *)
(***************************************************************************)
\* The sequence s rearranged in every way
Rearranged(s) ==
  {[i \in 1..Len(s) |-> s[f[i]]] : f \in Permutations(1..Len(s))}

C27_IndependentOfStorageOrder ==
  /\ \A ms \in Rearranged(GroupMembers) :
       allocate(config, ms, Cardinality(OfflinePeers)) = _allocations
  /\ \A i, j \in 1..Len(_allocations) :
       i < j => ~lexLess(_allocations[j].id, _allocations[i].id)

\* The peers are stored against the order of their ids and the last one starves
C27_Witness ==
  /\ Len(_peers) = 2
  /\ lexLess(_peers[2].id, _peers[1].id)
  /\ Cardinality(Demanding) = 3
  /\ Granted(2).reason = "starved_by_sort"
  /\ Granted(3).target_current = config.min_current_a

(***************************************************************************)
(* C28: when the available current is less than the demanding peers'       *)
(* minimums together, a demanding peer gets its minimum if the minimums of *)
(* the demanding peers up to it in device_id order fit, and else 0 A with  *)
(* the reason starved_by_sort.                                             *)
(***************************************************************************)
\* The demanding members whose device_id comes before that of member i
DemandingBefore(i) ==
  {j \in Demanding : lexLess(GroupMembers[j].id, GroupMembers[i].id)}

C28_StarvedInDeviceIdOrder ==
  ExpectedAvailable < Cardinality(Demanding) * config.min_current_a =>
    \A i \in Demanding :
       IF (Cardinality(DemandingBefore(i)) + 1) * config.min_current_a
            <= ExpectedAvailable
       THEN Granted(i).target_current = config.min_current_a
       ELSE /\ Granted(i).target_current = 0
            /\ Granted(i).reason = "starved_by_sort"

\* 13.6 A for three demanding nodes a, b, c with a minimum of 6 A: c starves
C28_Witness ==
  /\ ExpectedAvailable = Amps(13) + 6
  /\ Cardinality(Demanding) = 3
  /\ targetOf(_allocations, <<"a">>) = Amps(6)
  /\ targetOf(_allocations, SelfId) = Amps(6)
  /\ targetOf(_allocations, <<"c">>) = 0
  /\ TotalTarget = Amps(12)

(***************************************************************************)
(* C29: failsafe is engaged exactly when at least one peer is joined and   *)
(* all joined peers are offline, or the node has no valid status of its    *)
(* own sensors.                                                            *)
(***************************************************************************)
AllJoinedOffline == Len(_peers) > 0 /\ \A i \in 1..Len(_peers) : ~_peers[i].online

SelfAllocation == targetOf(_allocations, self.id)

C30_EmittedWhileEngaged ==
  /\ emitted <= SelfAllocation
  /\ (AllJoinedOffline \/ ~self.valid) =>
       emitted = IF config.failsafe_mode = "disable" THEN 0
                 ELSE Min2(config.failsafe_safe_current_a, SelfAllocation)

C30_FailsafeOverridesAndRecovers ==
  /\ []C30_EmittedWhileEngaged
  /\ [][(_failsafe_active /\ ~_failsafe_active') => emitted' = SelfAllocation']_vars

\* Engaged in mode safe_current with the allocator's 7.6 A below the safe 8 A
C30_Witness ==
  /\ _failsafe_active
  /\ config.failsafe_mode = "safe_current"
  /\ SelfAllocation > 0
  /\ SelfAllocation < config.failsafe_safe_current_a
  /\ emitted = SelfAllocation

(***************************************************************************)
(* C34: every search handle that startAsyncQuery got and that the worker   *)
(* no longer holds has been given to mdns_query_async_delete, and the      *)
(* handle the worker holds has not been deleted yet (so that no handle is  *)
(* deleted twice).                                                         *)
(***************************************************************************)
C34_EveryHandleDeletedOnce ==
  /\ \A h \in 1..mdns.made : h = _active_query \/ h \in mdns.deleted
  /\ _active_query # NullHandle => _active_query \notin mdns.deleted

(***************************************************************************)
(* C37: _discovery_count, which getDiscoveryCount returns, advances by one *)
(* in a step in which a query ran to completion and stays as it is in      *)
(* every other step (a start, a failed start, a timeout).                  *)
(***************************************************************************)
Completions == Cardinality(mdns.done)

C37_CountsCompletedQueries ==
  [][_discovery_count' - _discovery_count = Completions' - Completions]_vars

(***************************************************************************)
(* C35: whenever the task runs, no save is under way and the dirty flag is *)
(* clear, the list a start would load from /loadsharing_peers.json (the    *)
(* empty list if the file is missing or unreadable) is the list in memory. *)
(***************************************************************************)
C35_CleanFlagMeansPersisted ==
  (pc = "idle" /\ ~_groupPeersDirty) => LoadView(fsLive) = _groupPeers

(***************************************************************************)
(* C36: after a save that failed the dirty flag is set; an Add or Remove   *)
(* whose save wrote the whole document and renamed it leaves the complete  *)
(* current list on flash and the flag clear, earlier changes that had not  *)
(* been made durable included; and a request that changes nothing (it is   *)
(* rejected) touches neither the file nor the flag: nothing retries the    *)
(* failed save.                                                            *)
(***************************************************************************)
SaveFailed == Answered /\ hist.called /\ hist.ret /\ hist.saveRet = "fail"
SaveSucceeded ==
  Answered /\ hist.called /\ hist.ret /\ hist.saveRet = "ok" /\ hist.wrote = "full"
\* When the request arrived a start would not have loaded the list in memory
WasBehind == LoadView(hist.liveBefore) # hist.memBefore

C36_AfterFailedSave ==
  /\ SaveFailed => _groupPeersDirty
  /\ SaveSucceeded =>
       /\ ~_groupPeersDirty
       /\ fsLive = FileWith(serializeJson(_groupPeers))
       /\ LoadView(fsLive) = _groupPeers

C36_NextSuccessfulSaveWritesAll ==
  /\ []C36_AfterFailedSave
  /\ [][(pc = "idle" /\ pc' = "idle") =>
         /\ fsLive' = fsLive
         /\ fsTmp' = fsTmp
         /\ _groupPeersDirty' = _groupPeersDirty
         /\ _groupPeers' = _groupPeers]_vars

\* An Add whose save failed, then an Add whose save succeeded: both hosts
\* are on flash
C36_Witness ==
  /\ SaveSucceeded
  /\ WasBehind
  /\ hist.req = "post"
  /\ Len(_groupPeers) = 2
  /\ Len(hist.memBefore) = 1
  /\ LoadView(hist.liveBefore) = <<>>
  /\ LoadView(fsLive) = _groupPeers

(***************************************************************************)
(* C39: after a call of Limit::loop (with the EVSE attached) that leaves   *)
(* no limit set, the Limit client holds no claim; a call that finds the    *)
(* session completed clears an auto-release limit and leaves a limit       *)
(* without auto-release as it was.                                         *)
(***************************************************************************)
C39_NoLimitNoClaim ==
  (lh.ran /\ _evse) =>
    /\ ~hasLimit(_limit_properties) => evse.limit = "none"
    /\ (lh.triggered /\ lh.before.auto_release) => ~hasLimit(_limit_properties)
    /\ (lh.triggered /\ ~lh.before.auto_release) => _limit_properties = lh.before

\* A call that found the session completed and an auto-release limit with
\* its claim still held: the limit is cleared and the claim released
C39_Witness ==
  /\ lh.ran
  /\ lh.triggered
  /\ hasLimit(lh.before)
  /\ lh.before.auto_release
  /\ lh.claimBefore # "none"
  /\ ~hasLimit(_limit_properties)
  /\ evse.limit = "none"

(***************************************************************************)
(* C38: no two peer records share a host; addOrUpdatePeer returns true     *)
(* exactly when the list got one record longer (the peer, at the end), and *)
(* otherwise the list has the same length and hosts in the same order, the *)
(* record of that host holds the peer's values and every other record is   *)
(* as it was; removePeer returns true exactly when the list got one record *)
(* shorter (the record of that host is gone, the others keep their order), *)
(* and otherwise the list is as it was.                                    *)
(***************************************************************************)
HostsOf(peers) == [i \in 1..Len(peers) |-> peers[i].host]

\* The list without its record at place i
Without(peers, i) == SubSeq(peers, 1, i - 1) \o SubSeq(peers, i + 1, Len(peers))

C38_PeerListKeyedByHost ==
  /\ \A i, j \in 1..Len(_peers) : i # j => _peers[i].host # _peers[j].host
  /\ gh.call = "add" =>
       /\ gh.ret = (Len(_peers) = Len(gh.before) + 1)
       /\ gh.ret => _peers = gh.before \o <<gh.peer>>
       /\ ~gh.ret =>
            /\ HostsOf(_peers) = HostsOf(gh.before)
            /\ \A i \in 1..Len(_peers) :
                 _peers[i] = IF _peers[i].host = gh.host THEN gh.peer ELSE gh.before[i]
  /\ gh.call = "remove" =>
       /\ gh.ret = (Len(_peers) = Len(gh.before) - 1)
       /\ gh.ret => \E i \in 1..Len(gh.before) :
                      /\ gh.before[i].host = gh.host
                      /\ _peers = Without(gh.before, i)
       /\ ~gh.ret => _peers = gh.before

\* A full list of which the first record has just been updated in place
C38_Witness ==
  /\ gh.call = "add"
  /\ ~gh.ret
  /\ Len(_peers) = MaxJoined
  /\ _peers[1] = gh.peer
  /\ _peers[1] # gh.before[1]
  /\ _peers[2] = gh.before[2]

(***************************************************************************)
(* C31 as stated: last_seen advances only when a status of the peer is     *)
(* parsed, never when the stream opens or closes, and after every          *)
(* supervisor pass the peer is online if and only if now - last_seen is    *)
(* within heartbeat_timeout_s.                                             *)
(***************************************************************************)
WithinWindow == uptime - link.last_seen <= heartbeat_timeout_s

LastSeenOnlyOnParsed ==
  link'.last_seen # link.last_seen =>
    ih'.ev = "parsed" /\ link'.last_seen = uptime

C31_OnlineIffWithinWindow ==
  /\ [](ih.ev = "pass" => (link.online <=> WithinWindow))
  /\ [][LastSeenOnlyOnParsed]_vars

(***************************************************************************)
(* C31: last_seen advances only when a status of the peer is parsed, never *)
(* when the stream opens or closes; after every supervisor pass the peer   *)
(* is online if and only if a status of it was ever parsed and             *)
(* now - last_seen is within heartbeat_timeout_s; so after a pass a peer   *)
(* whose last parsed status is older than heartbeat_timeout_s (or that     *)
(* never sent one) is offline, whatever its stream did since.              *)
(***************************************************************************)
C31_OnlineIffHeardWithinWindow ==
  /\ [](ih.ev = "pass" => (link.online <=> (ih.heard /\ WithinWindow)))
  /\ [](ih.ev = "pass" /\ (~ih.heard \/ uptime - ih.parsed_at > heartbeat_timeout_s)
          => ~link.online)
  /\ [][LastSeenOnlyOnParsed]_vars

\* A peer that was heard, fell silent for longer than the timeout while its
\* stream was reopened and is open, and has just been marked offline
C31_Witness ==
  /\ ih.ev = "pass"
  /\ ih.heard
  /\ ih.opens = 2
  /\ link.connected
  /\ ~WithinWindow
  /\ ~link.online

(***************************************************************************)
(* Definitions used to state the properties of the config sync             *)
(***************************************************************************)
\* What a status tells of node n's config, in the nodes ns
Fingerprint(ns, n) == <<ns[n].config_version, configHash(ns[n].cfg)>>

SameFingerprint(ns) == Fingerprint(ns, SelfId) = Fingerprint(ns, PeerId)

\* Node n is the one that has to take over the other's config
Loses(ns, n) ==
  LET me == ns[n]
      other == ns[OtherNode(n)]
  IN \/ me.config_version < other.config_version
     \/ /\ me.config_version = other.config_version
        /\ configHash(me.cfg) # configHash(other.cfg)
        /\ \/ me.config_updated_at < other.config_updated_at
           \/ /\ me.config_updated_at = other.config_updated_at
              /\ lexLess(n, OtherNode(n))

\* The config a node holds, without the flag it reports
Held(node) == [node EXCEPT !.config_consistent = FALSE]

\* Node n took over the other node's config in the last step
TookOver(n) ==
  /\ Held(nodes[n]) # Held(sh.before[n])
  /\ Held(nodes[OtherNode(n)]) = Held(sh.before[OtherNode(n)])
  /\ nodes[n].cfg = sh.before[OtherNode(n)].cfg

Converged ==
  /\ SameFingerprint(nodes)
  /\ \A n \in NodeIds : nodes[n].config_consistent

(***************************************************************************)
(* C32: of two nodes that keep receiving each other's status, the one with *)
(* the lower config_version, or at equal version and different hash the    *)
(* one with the smaller config_updated_at (at equal config_updated_at the  *)
(* one with the lower device_id), takes over the other's config, and never *)
(* the other way round; a status that arrives while the two differ, other  *)
(* than at the winner of two concurrent edits, leaves both with the same   *)
(* config_version and config_hash; and from then on they come to report    *)
(* config_consistent=true.                                                 *)
(***************************************************************************)
ExchangeRight ==
  sh.ev = "status" =>
    /\ \A n \in NodeIds :
         Held(nodes[n]) # Held(sh.before[n]) => TookOver(n) /\ Loses(sh.before, n)
    /\ (~SameFingerprint(sh.before) /\ (Loses(sh.before, sh.at) \/
          sh.before[SelfId].config_version # sh.before[PeerId].config_version))
         => SameFingerprint(nodes)

C32_SyncConverges ==
  /\ []ExchangeRight
  /\ (~SameFingerprint(nodes)) ~> Converged

\* Two concurrent edits of the same second have just been settled by device_id
C32_Witness ==
  /\ sh.ev = "status"
  /\ sh.before[SelfId].config_version = sh.before[PeerId].config_version
  /\ sh.before[SelfId].config_updated_at = sh.before[PeerId].config_updated_at
  /\ ~SameFingerprint(sh.before)
  /\ TookOver(PeerId)
  /\ SameFingerprint(nodes)

(***************************************************************************)
(* C33: when a config document that fails the range checks arrives from    *)
(* the peer, the receiving node's group config, config_version and         *)
(* config_updated_at stay as they are, the first time and every further    *)
(* time, and this node's allocation and the current it sets stay as they   *)
(* are.                                                                    *)
(***************************************************************************)
OutOfRange(cfg) ==
  \/ cfg.group_max_current_a < 0
  \/ cfg.safety_factor < 0
  \/ cfg.safety_factor > SafetyScale
  \/ cfg.failsafe_mode \notin {"disable", "safe_current"}
  \/ cfg.failsafe_safe_current_a < 0
  \/ cfg.failsafe_peer_assumed_current_a < 0

C33_InvalidConfigRejected ==
  [][(sh'.ev = "invalid" /\ OutOfRange(sh'.doc)) =>
       /\ nodes' = nodes
       /\ config' = config
       /\ _allocations' = _allocations
       /\ _failsafe_active' = _failsafe_active
       /\ emitted' = emitted]_vars

\* This node, charging on its own edited config while the peer has a newer
\* one, has received an invalid document for the second time
C33_Witness ==
  /\ sh.ev = "invalid"
  /\ sh.at = SelfId
  /\ sh.invalids = 2
  /\ OutOfRange(sh.doc)
  /\ self.status = StatusCharging
  /\ nodes[SelfId].config_version = 1
  /\ nodes[PeerId].config_version = 2
  /\ config = nodes[SelfId].cfg
  /\ _allocations # <<>>

====
